---- MODULE Spec2Model ----
(***************************************************************************)
(* librvth: the bank-aware disc image engine of rvthtool.                  *)
(*                                                                         *)
(*   - reader_plain.cpp : sector-addressed window over a RefFile           *)
(*   - rvth.c           : rvth_open / rvth_open_gcm / rvth_open_hdd        *)
(*   - rvth_extract.cpp : rvth_copy_to_gcm / rvth_extract /                *)
(*                        rvth_copy_to_hdd / rvth_import                   *)
(*                                                                         *)
(* All LBA quantities are counted in 512-byte sectors.  The content of one *)
(* sector is abstracted to a token: ZERO (512 zero bytes) or a non-zero    *)
(* token; images are sparse functions from LBA to non-zero tokens.         *)
(*                                                                         *)
(* uint32_t is modelled with the modulus WORD = 2^30 instead of 2^32,      *)
(* because the model checker's integers are 32-bit signed and the sum of   *)
(* two words has to be representable before it is reduced.  Every program  *)
(* constant used here is below 2^30, so only the position of the wrap      *)
(* moves, not its behaviour.                                               *)
(***************************************************************************)
EXTENDS Integers, Naturals, Sequences, FiniteSets, TLC

(***************************************************************************)
(* Program constants                                                       *)
(***************************************************************************)
LBA_SIZE == 512
BUF_SIZE == 1048576
SPARSE_BLOCK_SIZE == 4096
SDK_HEADER_SIZE_BYTES == 32768
WORD == 2^30

BYTES_TO_LBA(x) == x \div LBA_SIZE
LBA_TO_BYTES(x) == x * LBA_SIZE
LBA_COUNT_BUF == BYTES_TO_LBA(BUF_SIZE)
SDK_HEADER_SIZE_LBA == BYTES_TO_LBA(SDK_HEADER_SIZE_BYTES)

\* uint32_t arithmetic.
Wrap32(x) == x % WORD

\* x & ~(LBA_COUNT_BUF-1), LBA_COUNT_BUF being a power of two.
AlignDownBuf(x) == x - (x % LBA_COUNT_BUF)

\* RvtH_BankType_e
RVTH_BankType_Empty == 0
RVTH_BankType_Unknown == 1
RVTH_BankType_GCN == 2
RVTH_BankType_Wii_SL == 3
RVTH_BankType_Wii_DL == 4
RVTH_BankType_Wii_DL_Bank2 == 5

\* RvtH_CryptoType_e
RVTH_CryptoType_Unknown == 0
RVTH_CryptoType_None == 1
RVTH_CryptoType_Debug == 2
RVTH_CryptoType_Retail == 3
RVTH_CryptoType_Korean == 4

\* RvtH_Extract_Flags
RVTH_EXTRACT_PREPEND_SDK_HEADER == 1

\* RvtH_Errors, in the order of errtbl[] in rvth_error().
RVTH_ERROR_BANK_UNKNOWN == 4
RVTH_ERROR_BANK_EMPTY == 5
RVTH_ERROR_BANK_DL_2 == 6
RVTH_ERROR_NOT_HDD_IMAGE == 10
RVTH_ERROR_NO_GAME_PARTITION == 11
RVTH_ERROR_IS_HDD_IMAGE == 13
RVTH_ERROR_IMAGE_TOO_BIG == 15
RVTH_ERROR_BANK_NOT_EMPTY_OR_DELETED == 16
RVTH_ERROR_IMPORT_DL_EXT_NO_BANK1 == 23
RVTH_ERROR_IMPORT_DL_LAST_BANK == 24
RVTH_ERROR_BANK2DL_NOT_EMPTY_OR_DELETED == 25
RVTH_ERROR_NDEV_GCN_NOT_SUPPORTED == 27

\* errno values.
ENOENT == 2
EIO == 5
ENOMEM == 12
EEXIST == 17
EINVAL == 22
ENOSPC == 28
EROFS == 30
ERANGE == 34
ECANCELED == 125

(***************************************************************************)
(* Bounds of the model                                                     *)
(***************************************************************************)
\* Number of banks of the HDD image that is extracted from.
HddBankCount == 8
\* A disc has at most MaxChunks full 1 MiB buffers, followed by one of the
\* tails of TailLens sectors.
MaxChunks == 1
TailLens == {0, 1, 513, 2000}
\* The bank arguments given to rvth_extract(): the bank holding the disc,
\* the bank after it, and the first bank number out of range.
ExtractBankArgs == {0, 1, HddBankCount}
\* The numbers of banks of the HDD images imported into: the plain table,
\* the smallest extended table and the largest.
ImportBankCounts == {HddBankCount, HddBankCount + 1, 32}
\* The bank arguments given to rvth_import(): the first banks, the last two
\* and the first bank number out of range.
ImportBankArgs(bank_count) == {0, 1, 2, 3, bank_count - 2, bank_count - 1, bank_count}
\* Full buffers in the single-layer images imported.
ImportChunks == 1

(***************************************************************************)
(* Sector contents                                                         *)
(***************************************************************************)
ZERO == "zero"
DATA == "data"
HDR_WII == "hdr_wii"
HDR_GCN == "hdr_gcn"
HDR_NOMAGIC == "hdr_nomagic"

\* The sectors of a file are a function from some LBAs to non-zero tokens;
\* every other LBA reads as ZERO.  A file is its sectors, its length in
\* LBAs, and what the discs stored in it say when they are identified.
EmptySectors == [i \in {} |-> ZERO]
EmptyImage == [sec |-> EmptySectors, discs |-> <<>>, filesize |-> 0]
Sector(img, i) == IF i \in DOMAIN img THEN img[i] ELSE ZERO

\* origHdr->magic_wii == WII_MAGIC || origHdr->magic_gcn == GCN_MAGIC
HasMagic(tok) == tok \in {HDR_WII, HDR_GCN}

VARIABLES
    ndebug,     \* "on" when built with NDEBUG (assert() compiled out), "off", "unset"
    rvth,       \* the RVT-H HDD object (extract source / import destination)
    gcm,        \* the standalone disc image object
    hddData,    \* sector contents of the HDD file
    gcmData,    \* sector contents of the standalone file
    table,      \* on-disk NHCD bank table of the HDD file
    io,         \* log of the file operations issued so far
    cb,         \* log of the progress callback invocations
    call        \* the running operation: arguments, locals, position, result

vars == <<ndebug, rvth, gcm, hddData, gcmData, table, io, cb, call>>

\* The build is NDEBUG or not; it is "unset" until an assert() has been
\* evaluated, which is the first time the two builds differ.
BuildChoices == IF ndebug = "unset" THEN BOOLEAN ELSE {ndebug = "on"}
BuildOf(nd) == IF nd THEN "on" ELSE "off"

(***************************************************************************)
(* reader_plain.cpp                                                        *)
(***************************************************************************)
\* A Reader is [file, lba_start, lba_len]; NoReader stands for NULL.
NoReader == [file |-> "null", lba_start |-> 0, lba_len |-> 0]

\* RefFile::read() / RefFile::write() of n sectors at the current position:
\* a read stops at the end of the file, a write extends it.
FileXfer(kind, pos, n, filesize) ==
    IF kind = "write" THEN n
    ELSE IF pos >= filesize THEN 0
    ELSE IF pos + n > filesize THEN filesize - pos
    ELSE n

\* The bounds test of reader_plain_read() / reader_plain_write().
ReaderOutOfRange_NoWrap(rd, lba_rel, n) ==
    lba_rel + n > rd.lba_len

ReaderOutOfRange(rd, lba_rel, n) ==
    LET lba_start == Wrap32(lba_rel + rd.lba_start)
    IN  Wrap32(lba_start + n) > Wrap32(rd.lba_start + rd.lba_len)

\* reader_plain_read() and reader_plain_write(): the two bodies differ only
\* in the final RefFile call.  The result is the returned count, the file
\* operations issued, whether the bounds test found the request out of
\* range, and whether assert() then stopped the process (nd: NDEBUG build).
reader_plain_io(rd, kind, lba_rel, n, filesize, nd) ==
    LET lba_start == Wrap32(lba_rel + rd.lba_start)
    IN  IF ReaderOutOfRange(rd, lba_rel, n)
        THEN [ret |-> 0, ops |-> <<>>, aborted |-> ~nd, oor |-> TRUE]
        ELSE [ret |-> FileXfer(kind, lba_start, n, filesize),
              ops |-> << [op |-> "seek", file |-> rd.file, lba |-> lba_start, n |-> 0],
                         [op |-> kind, file |-> rd.file, lba |-> lba_start, n |-> n] >>,
              aborted |-> FALSE, oor |-> FALSE]

reader_plain_read(rd, lba_rel, n, filesize, nd) ==
    reader_plain_io(rd, "read", lba_rel, n, filesize, nd)

reader_plain_write(rd, lba_rel, n, filesize, nd) ==
    reader_plain_io(rd, "write", lba_rel, n, filesize, nd)

\* Reader::lba_adjust()
lba_adjust(rd, delta) ==
    [rd EXCEPT !.lba_start = Wrap32(rd.lba_start + delta),
               !.lba_len = Wrap32(rd.lba_len - delta + WORD)]

\* reader_plain_open(): NULL for a NULL file or for lba_start > 0 with
\* lba_len == 0; the whole file for (0, 0).
reader_plain_open(file, lba_start, lba_len, filesize) ==
    IF file = "null" \/ (lba_start > 0 /\ lba_len = 0)
    THEN NoReader
    ELSE [file |-> file, lba_start |-> lba_start,
          lba_len |-> IF lba_start = 0 /\ lba_len = 0 THEN filesize ELSE lba_len]

(***************************************************************************)
(* nhcd_structs.h: layout of the HDD                                       *)
(***************************************************************************)
NHCD_BANKTABLE_ADDRESS_LBA == 3145728
NHCD_BANK_1_START_LBA == 3146240
NHCD_EXTBANKTABLE_BANK_1_START_LBA == 3146752
NHCD_BANK_SIZE_LBA == 9193984
NHCD_EXTBANKTABLE_BANK_1_SIZE_LBA == 9193472
NHCD_BANK_WII_SL_SIZE_RVTR_LBA == 9179648
NHCD_BANK_WII_DL_SIZE_RVTR_LBA == 16687616
NHCD_BANK_GCN_DL_SIZE_NR2_LBA == 2851520

NHCD_BANK_START_LBA(bank, bank_count) ==
    IF bank = 0 /\ bank_count > 8
    THEN NHCD_EXTBANKTABLE_BANK_1_START_LBA
    ELSE NHCD_BANK_1_START_LBA + NHCD_BANK_SIZE_LBA * bank

\* On-disk bank types (be32 tags) as they matter to the switch in
\* rvth_open_hdd(); any other tag is "junk".
NHCD_BankType_Empty == "empty"
NHCD_BankType_GCN == "GC1L"
NHCD_BankType_Wii_SL == "NN1L"
NHCD_BankType_Wii_DL == "NN2L"
NHCD_BankType_Junk == "junk"

(***************************************************************************)
(* RvtH_BankEntry                                                          *)
(***************************************************************************)
NoPte == [lba_start |-> 0, lba_len |-> 0]
ZeroSig == [sig_status |-> "unknown"]

\* calloc()ed RvtH_BankEntry.
ZeroEntry ==
    [type |-> RVTH_BankType_Empty, is_deleted |-> FALSE,
     lba_start |-> 0, lba_len |-> 0,
     crypto_type |-> RVTH_CryptoType_Unknown,
     region_code |-> 0, ios_version |-> 0,
     ticket |-> ZeroSig, tmd |-> ZeroSig,
     discHeader |-> ZERO, timestamp |-> 0,
     reader |-> NoReader, ptbl_game |-> NoPte]

\* rvth_disc_header_identify()
rvth_disc_header_identify(hdr) ==
    IF hdr = HDR_WII THEN RVTH_BankType_Wii_SL
    ELSE IF hdr = HDR_GCN THEN RVTH_BankType_GCN
    ELSE RVTH_BankType_Empty

\* What the ticket, the TMD and the partition table of a disc say; read by
\* rvth_init_BankEntry_region() / rvth_init_BankEntry_crypto().
NoMeta ==
    [crypto_type |-> RVTH_CryptoType_Unknown, region_code |-> 0, ios_version |-> 0,
     ticket |-> ZeroSig, tmd |-> ZeroSig, ptbl_game |-> NoPte]

\* rvth_init_BankEntry(): the entry of one bank-table slot.  hdr is the
\* first sector of the bank as stored, hdrCached the header recovered for
\* a bank whose stored magic was flushed, meta what the disc's ticket, TMD
\* and partition table say.
rvth_init_BankEntry(type, lba_start, lba_len, timestamp, hdr, hdrCached, meta) ==
    LET ident == rvth_disc_header_identify(hdr)
        deleted == type = RVTH_BankType_Empty /\ ident # RVTH_BankType_Empty
        type1 == IF deleted THEN ident ELSE type
        len1 == IF lba_len # 0 THEN lba_len
                ELSE IF type1 = RVTH_BankType_GCN THEN NHCD_BANK_GCN_DL_SIZE_NR2_LBA
                ELSE IF type1 = RVTH_BankType_Wii_DL THEN NHCD_BANK_WII_DL_SIZE_RVTR_LBA
                ELSE IF type1 = RVTH_BankType_Wii_SL THEN NHCD_BANK_WII_SL_SIZE_RVTR_LBA
                ELSE 0
        live == type1 \in {RVTH_BankType_GCN, RVTH_BankType_Wii_SL, RVTH_BankType_Wii_DL}
    IN  IF ~live
        THEN [ZeroEntry EXCEPT !.type = type1, !.lba_start = lba_start,
                               !.lba_len = len1, !.timestamp = -1]
        ELSE [type |-> type1, is_deleted |-> deleted,
              lba_start |-> lba_start, lba_len |-> len1,
              crypto_type |-> meta.crypto_type,
              region_code |-> meta.region_code, ios_version |-> meta.ios_version,
              ticket |-> meta.ticket, tmd |-> meta.tmd,
              discHeader |-> IF HasMagic(hdr) THEN hdr ELSE hdrCached,
              timestamp |-> timestamp,
              reader |-> reader_plain_open("hdd", lba_start, len1, WORD - 1),
              ptbl_game |-> meta.ptbl_game]

(***************************************************************************)
(* rvth.c: rvth_open_hdd()                                                 *)
(***************************************************************************)
\* The switch over be32_to_cpu(nhcd_entry.type).
BankTypeOfTable(t) ==
    IF t = NHCD_BankType_Empty THEN RVTH_BankType_Empty
    ELSE IF t = NHCD_BankType_GCN THEN RVTH_BankType_GCN
    ELSE IF t = NHCD_BankType_Wii_SL THEN RVTH_BankType_Wii_SL
    ELSE IF t = NHCD_BankType_Wii_DL THEN RVTH_BankType_Wii_DL
    ELSE RVTH_BankType_Unknown

\* The size of the header and of every entry of the bank table, in bytes.
NHCD_BLOCK_SIZE == 512

\* addr at iteration i of the for loop: it starts one block after the
\* table's header and "addr += 512" is part of the loop's increment, so
\* it also advances over a slot that "continue" skips.  The value is below
\* 2^31: the (uint32_t) cast changes nothing.
RECURSIVE OpenHddAddr(_)
OpenHddAddr(i) ==
    IF i = 0 THEN LBA_TO_BYTES(NHCD_BANKTABLE_ADDRESS_LBA) + NHCD_BLOCK_SIZE
    ELSE OpenHddAddr(i - 1) + 512

\* The NHCD_BankEntry that ref_read() delivers after ref_seeko(f_img, addr):
\* tbl[k] is the k-th block after the header of the bank table.
TableAt(tbl, addr) ==
    tbl[(addr - LBA_TO_BYTES(NHCD_BANKTABLE_ADDRESS_LBA)) \div NHCD_BLOCK_SIZE]

\* One iteration of the for loop of rvth_open_hdd() for slot i (0-based),
\* prev being the entry of slot i-1.
OpenHddSlot_AnyType(i, bank_count, prev, slot, img, disc) ==
    IF i > 0 /\ prev.type = RVTH_BankType_Wii_DL
    THEN [ZeroEntry EXCEPT !.type = RVTH_BankType_Wii_DL_Bank2, !.timestamp = -1]
    ELSE LET type == BankTypeOfTable(slot.type)
             bad == slot.lba_start = 0 \/ slot.lba_len = 0
             lba_start == IF bad THEN NHCD_BANK_START_LBA(i, bank_count)
                          ELSE slot.lba_start
             lba_len == IF bad THEN 0 ELSE slot.lba_len
         IN  rvth_init_BankEntry(type, lba_start, lba_len, slot.timestamp,
                                 Sector(img, lba_start), disc.hdrCached, disc.meta)
OpenHddSlot(i, bank_count, prev, slot, img, disc) ==
    IF i > 0 /\ prev.type = RVTH_BankType_Wii_DL
    THEN [ZeroEntry EXCEPT !.type = RVTH_BankType_Wii_DL_Bank2, !.timestamp = -1]
    ELSE LET type == BankTypeOfTable(slot.type)
             valid == type >= RVTH_BankType_GCN
             s0 == IF valid THEN slot.lba_start ELSE 0
             l0 == IF valid THEN slot.lba_len ELSE 0
             bad == s0 = 0 \/ l0 = 0
             lba_start == IF bad THEN NHCD_BANK_START_LBA(i, bank_count) ELSE s0
             lba_len == IF bad THEN 0 ELSE l0
         IN  rvth_init_BankEntry(type, lba_start, lba_len, slot.timestamp,
                                 Sector(img, lba_start), disc.hdrCached, disc.meta)

RECURSIVE OpenHddEntries(_, _, _, _)
OpenHddEntries(n, bank_count, tbl, img) ==
    IF n = 0 THEN <<>>
    ELSE LET before == OpenHddEntries(n - 1, bank_count, tbl, img)
             prev == IF n = 1 THEN ZeroEntry ELSE before[n - 1]
         IN  Append(before, OpenHddSlot(n - 1, bank_count, prev,
                                        TableAt(tbl, OpenHddAddr(n - 1)),
                                        img.sec, img.discs[n]))

\* The ref_seeko() and ref_read() of the first n iterations: none for a
\* slot that was skipped as the second bank of a dual-layer image.
RECURSIVE OpenHddReads(_, _)
OpenHddReads(n, entries) ==
    IF n = 0 THEN <<>>
    ELSE OpenHddReads(n - 1, entries) \o
         (IF entries[n].type = RVTH_BankType_Wii_DL_Bank2 THEN <<>>
          ELSE << [op |-> "read_entry", file |-> "img",
                   lba |-> OpenHddAddr(n - 1) \div LBA_SIZE, n |-> 1,
                   addr |-> OpenHddAddr(n - 1), slot |-> n - 1] >>)

\* rvth_open_hdd() on a file with a valid NHCD header: tbl is the bank
\* table, img the content of the file.
rvth_open_hdd(bank_count, tbl, img) ==
    [is_hdd |-> TRUE, bank_count |-> bank_count,
     entries |-> OpenHddEntries(bank_count, bank_count, tbl, img),
     writable |-> FALSE, open |-> TRUE]

(***************************************************************************)
(* Values of the variables an operation does not use                       *)
(***************************************************************************)
NoRvtH == [is_hdd |-> FALSE, bank_count |-> 0, entries |-> <<>>, writable |-> FALSE,
           open |-> FALSE]
NoCall == [op |-> "none", pc |-> "idle"]

(***************************************************************************)
(* Specification of the plain reader on its own: one window, any sequence *)
(* of read and write calls with 32-bit arguments.                          *)
(***************************************************************************)
ReaderWindowStarts == {0, SDK_HEADER_SIZE_LBA, LBA_COUNT_BUF}
ReaderWindowLens == {1, 8, LBA_COUNT_BUF}
ProbeLbas == {0, 1, 7, 8, LBA_COUNT_BUF, WORD - 8, WORD - 1}
ProbeCounts == {0, 1, 8, LBA_COUNT_BUF, WORD - 1}
ReaderFileSize == 2 * LBA_COUNT_BUF

InitReader ==
    /\ ndebug \in {"on", "off"}
    /\ rvth = NoRvtH
    /\ gcm = NoRvtH
    /\ hddData = EmptyImage
    /\ gcmData = EmptyImage
    /\ table = <<>>
    /\ io = <<>>
    /\ cb = <<>>
    /\ \E s \in ReaderWindowStarts, l \in ReaderWindowLens :
          call = [op |-> "none", pc |-> "idle",
                  reader |-> [file |-> "img", lba_start |-> s, lba_len |-> l]]

ReaderCall(kind) ==
    \E lba_rel \in ProbeLbas, n \in ProbeCounts :
        LET res == reader_plain_io(call.reader, kind, lba_rel, n, ReaderFileSize,
                                   ndebug = "on")
        IN  /\ call.pc # "aborted"
            /\ call' = [op |-> kind, pc |-> IF res.aborted THEN "aborted" ELSE "idle",
                        reader |-> call.reader,
                        lba_rel |-> lba_rel, n |-> n, ret |-> res.ret]
            /\ io' = res.ops
            /\ UNCHANGED <<ndebug, rvth, gcm, hddData, gcmData, table, cb>>

ReaderRead == ReaderCall("read")
ReaderWrite == ReaderCall("write")

NextReader == ReaderRead \/ ReaderWrite

SpecReader == InitReader /\ [][NextReader]_vars

(***************************************************************************)
(* The 1 MiB scratch buffer of the copy engine                             *)
(***************************************************************************)
\* malloc()ed memory: sectors below init_upto hold what was read into them
\* (m lists the non-zero ones), the sectors from init_upto on were never
\* written and hold whatever the allocator left there.
GARBAGE == "garbage"
NoBuf == [alloc |-> FALSE, m |-> EmptySectors, init_upto |-> 0]
NewBuf == [alloc |-> TRUE, m |-> EmptySectors, init_upto |-> 0]

Max(a, b) == IF a >= b THEN a ELSE b
Min(a, b) == IF a <= b THEN a ELSE b

\* Sector k of the buffer; g is what an uninitialized sector turns out to be.
BufSector(buf, k, g) ==
    IF k \in DOMAIN buf.m THEN buf.m[k]
    ELSE IF k < buf.init_upto THEN ZERO
    ELSE g

\* The buffer after cnt sectors were read into its start from LBA pos of sec.
BufAfterRead(buf, sec, pos, cnt) ==
    LET got == {j - pos : j \in {j \in DOMAIN sec : j >= pos /\ j < pos + cnt}}
        kept == {k \in DOMAIN buf.m : k >= cnt}
    IN  [alloc |-> buf.alloc,
         m |-> [k \in got \cup kept |-> IF k < cnt THEN sec[pos + k] ELSE buf.m[k]],
         init_upto |-> Max(buf.init_upto, cnt)]

\* memcpy(buf, &entry_src->discHeader, sizeof(entry_src->discHeader))
BufWithSector0(buf, tok) ==
    [alloc |-> buf.alloc,
     m |-> [k \in (DOMAIN buf.m \ {0}) \cup (IF tok = ZERO THEN {} ELSE {0}) |->
               IF k = 0 THEN tok ELSE buf.m[k]],
     init_upto |-> Max(buf.init_upto, 1)]

\* rvth_is_block_empty(&buf[first sector], nsec sectors) is false
BlockNonEmpty(buf, first, nsec, g) ==
    \/ \E k \in DOMAIN buf.m : k >= first /\ k < first + nsec
    \/ g # ZERO /\ first + nsec > buf.init_upto

\* The sectors of a file after n sectors were written at LBA a, the t-th
\* of them being Tok(t).
SectorsAfterWrite(sec, a, n, Tok(_)) ==
    LET nz == {a + t : t \in {t \in 0..(n - 1) : Tok(t) # ZERO}}
        rest == {j \in DOMAIN sec : j < a \/ j >= a + n}
    IN  [j \in nz \cup rest |-> IF j \in nz THEN Tok(j - a) ELSE sec[j]]

\* The smallest element of a non-empty set of numbers.
SetMin(S) == CHOOSE x \in S : \A y \in S : x <= y

(***************************************************************************)
(* rvth_extract.cpp: rvth_copy_to_gcm()                                    *)
(***************************************************************************)
\* time(NULL)
NowTime == 1000

SetMax(S) == CHOOSE x \in S : \A y \in S : x >= y

\* The elements of a finite set of multiples of step in increasing order.
SortedSeq(S, step) ==
    IF S = {} THEN <<>>
    ELSE LET InS(b) == b \in S
         IN  SelectSeq([i \in 1..((SetMax(S) \div step) + 1) |-> (i - 1) * step], InS)

\* One pass of a sparse-scan loop of rvth_copy_to_gcm(): offsets is the set
\* of buffer offsets (in sectors) of the blocks the loop visits, nsec the
\* size of a block in sectors.  Every non-empty block is written through
\* the destination reader at lba_count + offset and lba_nonsparse is set to
\* the last sector of the block.  The result is the destination file, the
\* file operations issued, lba_nonsparse, and whether a write was out of
\* range (oor) and assert() then stopped the process (aborted).
SparseScan(sec, filesize, nonsparse, offsets, nsec, buf, g, rd, lba_count, nd) ==
    LET nonempty == {b \in offsets : BlockNonEmpty(buf, b, nsec, g)}
        bad == {b \in nonempty : ReaderOutOfRange(rd, lba_count + b, nsec)}
        aborted == bad # {} /\ ~nd
        \* the iterations that complete before assert() fires
        run == IF aborted THEN {b \in nonempty : b < SetMin(bad)} ELSE nonempty
        good == run \ bad
        base == Wrap32(lba_count + rd.lba_start)
        covered == UNION {{Wrap32(base + b) + t : t \in 0..(nsec - 1)} : b \in good}
        nz == {j \in covered : BufSector(buf, Wrap32(j - base + WORD), g) # ZERO}
        rest == {j \in DOMAIN sec : j \notin covered}
        order == SortedSeq(good, nsec)
    IN  [sec |-> [j \in nz \cup rest |->
                    IF j \in nz THEN BufSector(buf, Wrap32(j - base + WORD), g)
                    ELSE sec[j]],
         filesize |-> IF good = {} THEN filesize
                      ELSE Max(filesize, Wrap32(base + SetMax(good)) + nsec),
         ops |-> [i \in 1..(2 * Len(order)) |->
                    [op |-> IF i % 2 = 1 THEN "seek" ELSE "write",
                     file |-> rd.file,
                     lba |-> Wrap32(base + order[(i + 1) \div 2]),
                     n |-> IF i % 2 = 1 THEN 0 ELSE nsec]],
         nonsparse |-> IF run = {} THEN nonsparse
                       ELSE lba_count + SetMax(run) + (nsec - 1),
         aborted |-> aborted,
         oor |-> bad # {}]

\* The offsets visited by "for (sprs = 0; sprs < limit; sprs += step)",
\* restricted to those whose block is not empty (the others do nothing).
ScanOffsets(buf, g, limit, step, nsec) ==
    {b \in ({(k \div nsec) * nsec : k \in DOMAIN buf.m}
            \cup (IF g # ZERO THEN {t * nsec : t \in 0..((limit - 1) \div step)} ELSE {})) :
        /\ LBA_TO_BYTES(b) < limit
        /\ LBA_TO_BYTES(b) % step = 0}

\* The frame of a running rvth_extract() / rvth_import() with the locals of
\* the copy function it calls.
Frame(op, bank, recrypt_key, flags, has_cb) ==
    [op |-> op, pc |-> "idle", bank |-> bank, recrypt_key |-> recrypt_key,
     flags |-> flags, has_cb |-> has_cb,
     bank_src |-> 0,         \* the source bank of rvth_copy_to_hdd()
     ret |-> 0,              \* the wrapper's ret
     unenc_to_enc |-> FALSE, gcm_lba_len |-> 0,
     cret |-> 0, err |-> 0,  \* ret and err of the copy function
     lba_copy_len |-> 0, lba_count |-> 0, lba_buf_max |-> 0, lba_nonsparse |-> 0,
     buf |-> NoBuf, mallocs |-> 0, frees |-> 0,
     followup |-> "none",
     old_entries |-> <<>>]   \* the destination's entries when the call began

\* "end:" of rvth_copy_to_gcm() / rvth_copy_to_hdd(): free(buf); return ret.
\* free(NULL) releases nothing.
CopyReturn_NoFree(c, ret, err) ==
    [c EXCEPT !.pc = "after_copy", !.cret = ret, !.err = err, !.buf = NoBuf]
CopyReturn(c, ret, err) ==
    [c EXCEPT !.pc = "after_copy", !.cret = ret, !.err = err,
              !.frees = IF c.buf.alloc THEN c.frees + 1 ELSE c.frees,
              !.buf = NoBuf]

\* A return statement that does not pass through "end:".
CopyReturnDirect(c, ret, err) ==
    [c EXCEPT !.pc = "after_copy", !.cret = ret, !.err = err]

\* The position after the for loop over full buffers has been left or
\* re-entered.
CopyNextPc(lba_count, lba_buf_max, lba_copy_len) ==
    IF lba_count < lba_buf_max THEN "chunk"
    ELSE IF lba_count < lba_copy_len THEN "tail"
    ELSE "final"

\* What the progress callback may answer: always "go on" when there is none.
CallbackAnswers(has_cb) == IF has_cb THEN BOOLEAN ELSE {TRUE}

CbLogged(has_cb, lba_processed, lba_total, bRet) ==
    IF has_cb
    THEN Append(cb, [lba_processed |-> lba_processed, lba_total |-> lba_total, ret |-> bRet])
    ELSE cb

\* What an uninitialized sector of the buffer may hold, when one is used.
GarbageChoices(buf, upto) == IF upto > buf.init_upto THEN {ZERO, GARBAGE} ELSE {ZERO}

\* rvth_copy_to_gcm(): from the entry up to the first loop test.
CopyToGcmEnter ==
    /\ call.op = "extract" /\ call.pc = "copy"
    /\ \E alloc_ok \in BOOLEAN, sparse_ok \in BOOLEAN :
        LET entry_src == rvth.entries[call.bank + 1]
            entry_dest == gcm.entries[1]
            t == entry_src.type
            copied == [entry_dest EXCEPT
                          !.type = entry_src.type,
                          !.region_code = entry_src.region_code,
                          !.is_deleted = FALSE,
                          !.crypto_type = entry_src.crypto_type,
                          !.ios_version = entry_src.ios_version,
                          !.ticket = entry_src.ticket,
                          !.tmd = entry_src.tmd,
                          !.discHeader = entry_src.discHeader,
                          !.timestamp = IF entry_src.timestamp >= 0
                                        THEN entry_src.timestamp ELSE NowTime]
            lba_buf_max == AlignDownBuf(entry_dest.lba_len)
        IN  IF gcm.is_hdd \/ gcm.bank_count # 1
            THEN /\ call' = CopyReturnDirect(call, RVTH_ERROR_IS_HDD_IMAGE, EIO)
                 /\ UNCHANGED <<gcm, gcmData, io>>
            ELSE IF t \notin {RVTH_BankType_GCN, RVTH_BankType_Wii_SL, RVTH_BankType_Wii_DL}
            THEN /\ call' = CopyReturnDirect(call,
                                IF t = RVTH_BankType_Empty THEN RVTH_ERROR_BANK_EMPTY
                                ELSE IF t = RVTH_BankType_Wii_DL_Bank2 THEN RVTH_ERROR_BANK_DL_2
                                ELSE RVTH_ERROR_BANK_UNKNOWN,
                                IF t = RVTH_BankType_Empty THEN ENOENT ELSE EIO)
                 /\ UNCHANGED <<gcm, gcmData, io>>
            ELSE IF ~alloc_ok
            THEN /\ call' = CopyReturn(call, -ENOMEM, ENOMEM)
                 /\ UNCHANGED <<gcm, gcmData, io>>
            ELSE IF ~sparse_ok
            THEN /\ call' = CopyReturn([call EXCEPT !.buf = NewBuf, !.mallocs = @ + 1],
                                       -ENOMEM, ENOMEM)
                 /\ io' = Append(io, [op |-> "truncate", file |-> "gcm", lba |-> 0,
                                      n |-> entry_dest.lba_len])
                 /\ UNCHANGED <<gcm, gcmData>>
            ELSE /\ call' = [call EXCEPT
                                !.buf = NewBuf, !.mallocs = @ + 1,
                                !.lba_copy_len = entry_src.lba_len,
                                !.lba_buf_max = lba_buf_max,
                                !.lba_nonsparse = 0,
                                !.lba_count = 0,
                                !.pc = CopyNextPc(0, lba_buf_max, entry_src.lba_len)]
                 /\ gcm' = [gcm EXCEPT !.entries[1] = copied]
                 \* makeSparse(): the file is truncated to the requested length
                 /\ gcmData' = [gcmData EXCEPT
                                   !.filesize = entry_dest.lba_len,
                                   !.sec = [j \in {j \in DOMAIN gcmData.sec :
                                                     j < entry_dest.lba_len} |->
                                               gcmData.sec[j]]]
                 /\ io' = Append(io, [op |-> "truncate", file |-> "gcm", lba |-> 0,
                                      n |-> entry_dest.lba_len])
    /\ UNCHANGED <<ndebug, rvth, hddData, table, cb>>

\* One iteration of "for (lba_count = 0; lba_count < lba_buf_max; ...)".
CopyToGcmChunk ==
    /\ call.op = "extract" /\ call.pc = "chunk"
    /\ \E nd \in BuildChoices :
       LET entry_src == rvth.entries[call.bank + 1]
           entry_dest == gcm.entries[1]
           lba_count == call.lba_count
           rres == reader_plain_read(entry_src.reader, lba_count, LBA_COUNT_BUF,
                                     hddData.filesize, nd)
           rpos == Wrap32(lba_count + entry_src.reader.lba_start)
           buf1 == BufAfterRead(call.buf, hddData.sec, rpos, rres.ret)
       IN \E bRet \in CallbackAnswers(call.has_cb), g \in GarbageChoices(buf1, LBA_COUNT_BUF) :
        LET \* the header is restored when the first sector read has no magic
            buf2 == IF lba_count = 0 /\ ~HasMagic(BufSector(buf1, 0, g))
                    THEN BufWithSector0(buf1, entry_src.discHeader)
                    ELSE buf1
            st == SparseScan(gcmData.sec, gcmData.filesize, call.lba_nonsparse,
                             ScanOffsets(buf2, g, BUF_SIZE, SPARSE_BLOCK_SIZE,
                                         BYTES_TO_LBA(SPARSE_BLOCK_SIZE)),
                             BYTES_TO_LBA(SPARSE_BLOCK_SIZE), buf2, g,
                             entry_dest.reader, lba_count, nd)
            next == lba_count + LBA_COUNT_BUF
        IN  /\ cb' = CbLogged(call.has_cb, lba_count, call.lba_copy_len, bRet)
            /\ IF ~bRet
               THEN /\ call' = CopyReturn(call, call.cret, ECANCELED)
                    /\ UNCHANGED <<gcmData, io, ndebug>>
               ELSE IF rres.aborted
               THEN /\ call' = [call EXCEPT !.pc = "aborted"]
                    /\ ndebug' = BuildOf(nd)
                    /\ UNCHANGED <<gcmData, io>>
               ELSE /\ call' = [call EXCEPT
                                   !.buf = buf2,
                                   !.lba_nonsparse = st.nonsparse,
                                   !.lba_count = next,
                                   !.pc = IF st.aborted THEN "aborted"
                                          ELSE CopyNextPc(next, call.lba_buf_max,
                                                          call.lba_copy_len)]
                    /\ gcmData' = [gcmData EXCEPT !.sec = st.sec, !.filesize = st.filesize]
                    /\ io' = io \o rres.ops \o st.ops
                    /\ ndebug' = IF rres.oor \/ st.oor THEN BuildOf(nd) ELSE ndebug
    /\ UNCHANGED <<rvth, gcm, hddData, table>>

\* "Process any remaining LBAs."
CopyToGcmTail ==
    /\ call.op = "extract" /\ call.pc = "tail"
    /\ \E nd \in BuildChoices :
       LET lba_left == call.lba_copy_len - call.lba_count
           sz_left == BYTES_TO_LBA(lba_left)
           entry_src == rvth.entries[call.bank + 1]
           entry_dest == gcm.entries[1]
           lba_count == call.lba_count
           rres == reader_plain_read(entry_src.reader, lba_count, lba_left,
                                     hddData.filesize, nd)
           rpos == Wrap32(lba_count + entry_src.reader.lba_start)
           buf1 == BufAfterRead(call.buf, hddData.sec, rpos, rres.ret)
           \* number of buffer sectors the scan loop looks at
           scanned == IF sz_left > 0 THEN ((sz_left - 1) \div LBA_SIZE) + 1 ELSE 0
       IN \E bRet \in CallbackAnswers(call.has_cb), g \in GarbageChoices(buf1, scanned) :
        LET st == SparseScan(gcmData.sec, gcmData.filesize, call.lba_nonsparse,
                             ScanOffsets(buf1, g, sz_left, LBA_SIZE, 1),
                             1, buf1, g, entry_dest.reader, lba_count, nd)
        IN  /\ cb' = CbLogged(call.has_cb, lba_count, call.lba_copy_len, bRet)
            /\ IF ~bRet
               THEN /\ call' = CopyReturn(call, call.cret, ECANCELED)
                    /\ UNCHANGED <<gcmData, io, ndebug>>
               ELSE IF rres.aborted
               THEN /\ call' = [call EXCEPT !.pc = "aborted"]
                    /\ ndebug' = BuildOf(nd)
                    /\ UNCHANGED <<gcmData, io>>
               ELSE /\ call' = [call EXCEPT
                                   !.buf = buf1,
                                   !.lba_nonsparse = st.nonsparse,
                                   !.pc = IF st.aborted THEN "aborted" ELSE "final"]
                    /\ gcmData' = [gcmData EXCEPT !.sec = st.sec, !.filesize = st.filesize]
                    /\ io' = io \o rres.ops \o st.ops
                    /\ ndebug' = IF rres.oor \/ st.oor THEN BuildOf(nd) ELSE ndebug
    /\ UNCHANGED <<rvth, gcm, hddData, table>>

\* The completion callback, the final sector, the flush and the return.
CopyToGcmFinish ==
    /\ call.op = "extract" /\ call.pc = "final"
    /\ \E bRet \in CallbackAnswers(call.has_cb), nd \in BuildChoices :
        LET entry_dest == gcm.entries[1]
            last == Wrap32(call.lba_copy_len - 1 + WORD)
            need_zero == call.lba_nonsparse # last
            wres == reader_plain_write(entry_dest.reader, last, 1, gcmData.filesize, nd)
            wpos == Wrap32(last + entry_dest.reader.lba_start)
            wrote == need_zero /\ wres.ops # <<>>
            ZeroTok(t) == ZERO
        IN  /\ cb' = CbLogged(call.has_cb, call.lba_copy_len, call.lba_copy_len, bRet)
            /\ IF ~bRet
               THEN /\ call' = CopyReturn(call, call.cret, ECANCELED)
                    /\ UNCHANGED <<gcmData, io, ndebug>>
               ELSE IF need_zero /\ wres.aborted
               THEN /\ call' = [call EXCEPT !.pc = "aborted"]
                    /\ ndebug' = BuildOf(nd)
                    /\ UNCHANGED <<gcmData, io>>
               ELSE /\ call' = CopyReturn(call, call.cret, call.err)
                    /\ gcmData' = IF wrote
                                  THEN [gcmData EXCEPT
                                           !.sec = SectorsAfterWrite(gcmData.sec, wpos, 1, ZeroTok),
                                           !.filesize = Max(gcmData.filesize, wpos + 1)]
                                  ELSE gcmData
                    /\ io' = (IF need_zero THEN io \o wres.ops ELSE io)
                             \o << [op |-> "flush", file |-> "gcm", lba |-> 0, n |-> 0] >>
                    /\ ndebug' = IF need_zero /\ wres.oor THEN BuildOf(nd) ELSE ndebug
    /\ UNCHANGED <<rvth, gcm, hddData, table>>

(***************************************************************************)
(* rvth_extract.cpp: rvth_extract()                                        *)
(***************************************************************************)
HasFlag(flags, f) == (flags \div f) % 2 = 1

\* unenc_to_enc
ExtractUnencToEnc(entry, recrypt_key) ==
    /\ entry.type >= RVTH_BankType_Wii_SL
    /\ entry.crypto_type = RVTH_CryptoType_None
    /\ recrypt_key > RVTH_CryptoType_Unknown

\* gcm_lba_len before the SDK header is accounted for.
ExtractBaseLbaLen_NoRoundUp(entry, recrypt_key) ==
    IF ExtractUnencToEnc(entry, recrypt_key)
    THEN LET game_pte == entry.ptbl_game
             lba_tmp == Wrap32(game_pte.lba_len - BYTES_TO_LBA(32768) + WORD)
         IN  Wrap32(Wrap32((lba_tmp \div 3968) * 4096)
                    + BYTES_TO_LBA(131072) + game_pte.lba_start)
    ELSE entry.lba_len
ExtractBaseLbaLen(entry, recrypt_key) ==
    IF ExtractUnencToEnc(entry, recrypt_key)
    THEN LET game_pte == entry.ptbl_game
             lba_tmp == Wrap32(game_pte.lba_len - BYTES_TO_LBA(32768) + WORD)
             whole == Wrap32((lba_tmp \div 3968) * 4096)
             up == IF lba_tmp % 3968 # 0 THEN Wrap32(whole + 4096) ELSE whole
         IN  Wrap32(up + BYTES_TO_LBA(131072) + game_pte.lba_start)
    ELSE entry.lba_len

\* gcm_lba_len as passed to rvth_create_gcm().
ExtractGcmLbaLen(entry, recrypt_key, flags) ==
    IF HasFlag(flags, RVTH_EXTRACT_PREPEND_SDK_HEADER)
    THEN Wrap32(ExtractBaseLbaLen(entry, recrypt_key) + BYTES_TO_LBA(32768))
    ELSE ExtractBaseLbaLen(entry, recrypt_key)

\* rvth_create_gcm(): a new, empty standalone image of lba_len sectors.
rvth_create_gcm(lba_len) ==
    [is_hdd |-> FALSE, bank_count |-> 1,
     entries |-> << [ZeroEntry EXCEPT !.lba_len = lba_len, !.timestamp = NowTime,
                                      !.reader = reader_plain_open("gcm", 0, lba_len, 0)] >>,
     writable |-> TRUE, open |-> TRUE]

\* The sectors of the 32 KiB NDEV preamble: FF FF at 0x0000, E0 06 at
\* 0x082E and 01 at 0x0844; everything else is zero.
SdkHeaderSector(t) ==
    IF t = 0 THEN "sdk_ffff"
    ELSE IF t = 2094 \div LBA_SIZE THEN "sdk_e006_01"
    ELSE ZERO

\* The test made before the destination is created: an NDEV preamble is
\* asked for and the bank holds a GameCube disc.
NdevUnsupported_NotTested(entry, flags) == FALSE
NdevUnsupported(entry, flags) ==
    HasFlag(flags, RVTH_EXTRACT_PREPEND_SDK_HEADER) /\ entry.type = RVTH_BankType_GCN

\* rvth_extract() up to the call of the copy function: the frame, the
\* destination object and file, the file operations issued, and whether an
\* assert() was evaluated with a false condition.  env says whether
\* rvth_create_gcm() and the calloc() of the preamble succeed.
ExtractStartOutcome(bank, recrypt_key, flags, has_cb, env, nd) ==
    LET f == Frame("extract", bank, recrypt_key, flags, has_cb)
        Returned(ret) == [call |-> [f EXCEPT !.pc = "done", !.ret = ret],
                          gcm |-> gcm, gcmData |-> gcmData, io |-> io,
                          asserted |-> FALSE]
    IN  IF bank >= rvth.bank_count
        THEN Returned(-ERANGE)
        ELSE
        LET entry == rvth.entries[bank + 1]
            unenc_to_enc == ExtractUnencToEnc(entry, recrypt_key)
            sdk == HasFlag(flags, RVTH_EXTRACT_PREPEND_SDK_HEADER)
            gcm_lba_len == ExtractGcmLbaLen(entry, recrypt_key, flags)
            dest == rvth_create_gcm(gcm_lba_len)
            reader == dest.entries[1].reader
            wres == reader_plain_write(reader, 0, SDK_HEADER_SIZE_LBA, 0, nd)
            created == Append(io, [op |-> "create", file |-> "gcm", lba |-> 0,
                                   n |-> gcm_lba_len])
            f1 == [f EXCEPT !.unenc_to_enc = unenc_to_enc, !.gcm_lba_len = gcm_lba_len,
                            !.pc = IF unenc_to_enc THEN "docrypt" ELSE "copy"]
            closed == [dest EXCEPT !.open = FALSE]
        IN  IF unenc_to_enc /\ entry.ptbl_game = NoPte
            THEN Returned(RVTH_ERROR_NO_GAME_PARTITION)
            ELSE IF NdevUnsupported(entry, flags)
            THEN Returned(RVTH_ERROR_NDEV_GCN_NOT_SUPPORTED)
            ELSE IF env = "create"
            THEN Returned(-EIO)
            ELSE IF ~sdk
            THEN [call |-> f1, gcm |-> dest, gcmData |-> EmptyImage, io |-> created,
                  asserted |-> FALSE]
            ELSE IF env = "calloc"
            THEN [call |-> [f1 EXCEPT !.pc = "done", !.ret = -ENOMEM], gcm |-> closed,
                  gcmData |-> EmptyImage, io |-> created, asserted |-> FALSE]
            ELSE IF entry.type = RVTH_BankType_GCN
            THEN \* case RVTH_BankType_GCN: rvth_close(rvth_dest); return ...;
                 [call |-> [f1 EXCEPT !.pc = "done",
                                      !.ret = RVTH_ERROR_NDEV_GCN_NOT_SUPPORTED],
                  gcm |-> closed, gcmData |-> EmptyImage, io |-> created,
                  asserted |-> FALSE]
            ELSE IF entry.type \notin {RVTH_BankType_Wii_SL, RVTH_BankType_Wii_DL}
            THEN \* default: assert(!"Incorrect bank type."); free(sdk_header); goto end;
                 [call |-> IF nd THEN [f1 EXCEPT !.pc = "done", !.ret = 0]
                           ELSE [f1 EXCEPT !.pc = "aborted"],
                  gcm |-> IF nd THEN closed ELSE dest,
                  gcmData |-> EmptyImage, io |-> created, asserted |-> TRUE]
            ELSE IF wres.aborted
            THEN [call |-> [f1 EXCEPT !.pc = "aborted"], gcm |-> dest,
                  gcmData |-> EmptyImage, io |-> created, asserted |-> TRUE]
            ELSE IF wres.ret # SDK_HEADER_SIZE_LBA
            THEN [call |-> [f1 EXCEPT !.pc = "done", !.ret = -EIO], gcm |-> closed,
                  gcmData |-> EmptyImage, io |-> created \o wres.ops,
                  asserted |-> wres.oor]
            ELSE [call |-> f1,
                  gcm |-> [dest EXCEPT !.entries[1].reader =
                              lba_adjust(reader, SDK_HEADER_SIZE_LBA)],
                  gcmData |-> [EmptyImage EXCEPT
                                  !.sec = SectorsAfterWrite(EmptySectors, 0,
                                              SDK_HEADER_SIZE_LBA, SdkHeaderSector),
                                  !.filesize = SDK_HEADER_SIZE_LBA],
                  io |-> created \o wres.ops, asserted |-> FALSE]

ExtractStart ==
    /\ call.op = "none" /\ call.pc = "idle"
    /\ rvth.open /\ rvth.is_hdd
    /\ \E bank \in ExtractBankArgs, recrypt_key \in {-1, RVTH_CryptoType_Debug},
          flags \in {0, RVTH_EXTRACT_PREPEND_SDK_HEADER},
          has_cb \in BOOLEAN, env \in {"ok", "create", "calloc"}, nd \in BuildChoices :
        LET out == ExtractStartOutcome(bank, recrypt_key, flags, has_cb, env, nd)
        IN  /\ call' = out.call
            /\ gcm' = out.gcm
            /\ gcmData' = out.gcmData
            /\ io' = out.io
            /\ ndebug' = IF out.asserted THEN BuildOf(nd) ELSE ndebug
    /\ UNCHANGED <<rvth, hddData, table, cb>>

\* rvth_copy_to_gcm_doCrypt(): the 31K -> 32K conversion copy, of which only
\* the outcome is modelled.
ExtractDoCrypt ==
    /\ call.op = "extract" /\ call.pc = "docrypt"
    /\ \E r \in {0, -EIO} :
        /\ call' = [call EXCEPT !.pc = "after_copy", !.cret = r]
        /\ io' = Append(io, [op |-> "docrypt", file |-> "gcm", lba |-> 0, n |-> 0])
    /\ UNCHANGED <<ndebug, rvth, gcm, hddData, gcmData, table, cb>>

\* rvth_extract() after the copy function has returned.
ExtractFinish ==
    /\ call.op = "extract" /\ call.pc = "after_copy"
    /\ LET entry == rvth.entries[call.bank + 1]
           recrypt == /\ call.cret = 0
                      /\ call.recrypt_key > RVTH_CryptoType_Unknown
                      /\ entry.crypto_type # call.recrypt_key
       IN  \E r \in (IF recrypt THEN {0, -EIO} ELSE {call.cret}) :
            /\ call' = [call EXCEPT !.pc = "done", !.ret = r,
                                    !.followup = IF recrypt THEN "recrypt_partitions"
                                                 ELSE "none"]
            /\ io' = IF recrypt
                     THEN Append(io, [op |-> "recrypt_partitions", file |-> "gcm",
                                      lba |-> 0, n |-> 0])
                     ELSE io
    /\ gcm' = [gcm EXCEPT !.open = FALSE]
    /\ UNCHANGED <<ndebug, rvth, hddData, gcmData, table, cb>>

(***************************************************************************)
(* Specification of the extract path: an HDD image whose first bank holds  *)
(* one of the discs below, and one rvth_extract() call on it.              *)
(***************************************************************************)
ExtractLens == {c * LBA_COUNT_BUF + t : c \in 0..MaxChunks, t \in TailLens} \ {0}

HddFileSize(bank_count) == NHCD_BANK_START_LBA(bank_count, bank_count)

EmptySlot == [type |-> NHCD_BankType_Empty, lba_start |-> 0, lba_len |-> 0, timestamp |-> -1]
NoDisc == [hdrCached |-> ZERO, meta |-> NoMeta]

MagicOfTable(t) == IF t = NHCD_BankType_GCN THEN HDR_GCN ELSE HDR_WII

GamePte == [lba_start |-> 1024, lba_len |-> 8000]

\* The game partitions of the unencrypted discs: one of 64 sectors (nothing
\* after the partition header), of one sector more, of exactly one and of
\* one and a bit groups of 3968 sectors, one shorter than its header, and
\* two whose length or start makes the 32-bit sum wrap.
GamePtes ==
    {GamePte,
     [lba_start |-> 1024, lba_len |-> 64], [lba_start |-> 1024, lba_len |-> 65],
     [lba_start |-> 1024, lba_len |-> 64 + 3968], [lba_start |-> 1024, lba_len |-> 65 + 3968],
     [lba_start |-> 1024, lba_len |-> 10],
     [lba_start |-> 1024, lba_len |-> WORD - 1],
     [lba_start |-> WORD - 200, lba_len |-> 65]}

DiscMeta(crypto, sig, pte) ==
    [crypto_type |-> crypto, region_code |-> 1, ios_version |-> 36,
     ticket |-> [sig_status |-> sig], tmd |-> [sig_status |-> sig], ptbl_game |-> pte]

\* The LBAs other than the first that may hold data in a disc of L sectors.
DataCandidates(L) ==
    {L - 1, AlignDownBuf(L), AlignDownBuf(L) + 1} \cap 1..(L - 1)

\* A stored disc: the bank-table type, the length, the first sector as
\* stored, the other non-zero sectors, the crypto type, the timestamp and
\* the game partition.
ExtractDiscs ==
    UNION {{[type |-> t, len |-> L, first |-> h, nz |-> nz,
             crypto |-> IF t = NHCD_BankType_GCN THEN RVTH_CryptoType_None
                        ELSE RVTH_CryptoType_Debug,
             timestamp |-> 500, pte |-> NoPte] :
               t \in {NHCD_BankType_GCN, NHCD_BankType_Wii_SL},
               h \in {"magic", ZERO, HDR_NOMAGIC},
               nz \in {{}} \cup {{k} : k \in DataCandidates(L)}} : L \in ExtractLens}
    \cup
    {[type |-> t, len |-> LBA_COUNT_BUF + 1, first |-> "magic", nz |-> {LBA_COUNT_BUF},
      crypto |-> c, timestamp |-> -1, pte |-> pte] :
        t \in {NHCD_BankType_Wii_SL, NHCD_BankType_Wii_DL},
        c \in {RVTH_CryptoType_None, RVTH_CryptoType_Retail},
        pte \in {NoPte} \cup GamePtes}
    \cup
    {[type |-> t, len |-> 0, first |-> ZERO, nz |-> {},
      crypto |-> RVTH_CryptoType_Unknown, timestamp |-> -1, pte |-> NoPte] :
        t \in {NHCD_BankType_Empty, NHCD_BankType_Junk}}

\* The HDD file holding disc d in bank 0 and nothing else.
HddTableWith(d, bank_count) ==
    [i \in 1..bank_count |->
        IF i = 1 /\ d.type # NHCD_BankType_Empty
        THEN [type |-> d.type, lba_start |-> NHCD_BANK_START_LBA(0, bank_count),
              lba_len |-> d.len, timestamp |-> d.timestamp]
        ELSE EmptySlot]

DiscSectors(d, start) ==
    LET first == IF d.first = "magic" THEN MagicOfTable(d.type) ELSE d.first
        dom == {start + k : k \in d.nz} \cup (IF first = ZERO THEN {} ELSE {start})
    IN  [j \in dom |-> IF j = start THEN first ELSE DATA]

HddImageWith(d, bank_count) ==
    [sec |-> DiscSectors(d, NHCD_BANK_START_LBA(0, bank_count)),
     discs |-> [i \in 1..bank_count |->
                  IF i = 1 /\ d.type \notin {NHCD_BankType_Empty, NHCD_BankType_Junk}
                  THEN [hdrCached |-> MagicOfTable(d.type),
                        meta |-> DiscMeta(d.crypto, "ok", d.pte)]
                  ELSE NoDisc],
     filesize |-> HddFileSize(bank_count)]

InitExtract ==
    /\ ndebug = "unset"
    /\ \E d \in ExtractDiscs :
        /\ table = HddTableWith(d, HddBankCount)
        /\ hddData = HddImageWith(d, HddBankCount)
        /\ rvth = rvth_open_hdd(HddBankCount, HddTableWith(d, HddBankCount),
                                HddImageWith(d, HddBankCount))
    /\ gcm = NoRvtH
    /\ gcmData = EmptyImage
    /\ io = <<>>
    /\ cb = <<>>
    /\ call = NoCall

NextExtract ==
    \/ ExtractStart
    \/ CopyToGcmEnter
    \/ CopyToGcmChunk
    \/ CopyToGcmTail
    \/ CopyToGcmFinish
    \/ ExtractDoCrypt
    \/ ExtractFinish

SpecExtract == InitExtract /\ [][NextExtract]_vars

(***************************************************************************)
(* rvth.c: rvth_open_gcm()                                                 *)
(***************************************************************************)
\* rvth_open_gcm() on a file holding img: one bank spanning the whole file.
rvth_open_gcm(img) ==
    LET reader == reader_plain_open("gcm", 0, img.filesize, img.filesize)
        hdr == Sector(img.sec, 0)
        ident == rvth_disc_header_identify(hdr)
        type == IF ident = RVTH_BankType_Wii_SL
                   /\ reader.lba_len > NHCD_BANK_WII_SL_SIZE_RVTR_LBA
                THEN RVTH_BankType_Wii_DL
                ELSE ident
        meta == img.discs[1].meta
        entry == [ZeroEntry EXCEPT !.lba_start = reader.lba_start,
                                   !.lba_len = reader.lba_len,
                                   !.type = type,
                                   !.is_deleted = FALSE,
                                   !.reader = reader,
                                   !.timestamp = -1]
    IN  [is_hdd |-> FALSE, bank_count |-> 1,
         entries |-> << IF type = RVTH_BankType_Empty THEN entry
                        ELSE [entry EXCEPT !.discHeader = hdr,
                                           !.region_code = meta.region_code,
                                           !.crypto_type = meta.crypto_type,
                                           !.ios_version = meta.ios_version,
                                           !.ticket = meta.ticket,
                                           !.tmd = meta.tmd,
                                           !.ptbl_game = meta.ptbl_game] >>,
         writable |-> FALSE, open |-> TRUE]

(***************************************************************************)
(* rvth_extract.cpp: rvth_copy_to_hdd()                                    *)
(***************************************************************************)
\* bank_count_dest > 8: the bank table is extended
ExtendedBankTable_OffByOne(bank_count_dest) == bank_count_dest > 9
ExtendedBankTable(bank_count_dest) == bank_count_dest > 8

\* bank_dest == bank_count_dest-1
DlLastBank(bank_dest, bank_count_dest) == bank_dest = bank_count_dest - 1

\* !(entry->type != RVTH_BankType_Empty && !entry->is_deleted)
BankEmptyOrDeleted_Negated(entry) ==
    entry.type = RVTH_BankType_Empty \/ ~entry.is_deleted
BankEmptyOrDeleted(entry) ==
    entry.type = RVTH_BankType_Empty \/ entry.is_deleted

\* The size tests of rvth_copy_to_hdd(): two banks for a dual-layer image,
\* one bank for a single-layer image, and the shorter first bank of an
\* extended bank table.
ImageTooBig_NoExtCap(entry_src, bank_dest, bank_count_dest) ==
    IF entry_src.type = RVTH_BankType_Wii_DL
    THEN entry_src.lba_len > NHCD_BANK_SIZE_LBA * 2
    ELSE entry_src.lba_len > NHCD_BANK_SIZE_LBA
ImageTooBig(entry_src, bank_dest, bank_count_dest) ==
    IF entry_src.type = RVTH_BankType_Wii_DL
    THEN entry_src.lba_len > NHCD_BANK_SIZE_LBA * 2
    ELSE \/ entry_src.lba_len > NHCD_BANK_SIZE_LBA
         \/ /\ bank_dest = 0 /\ ExtendedBankTable(bank_count_dest)
            /\ entry_src.lba_len > NHCD_EXTBANKTABLE_BANK_1_SIZE_LBA

\* The checks of rvth_copy_to_hdd() before anything is changed: the value
\* returned and errno, or ret = 0 when the import may go on.
CopyToHddCheck(rvth_dest, bank_dest, rvth_src, bank_src) ==
    LET Fail(ret, err) == [ret |-> ret, err |-> err]
    IN  IF bank_src >= rvth_src.bank_count \/ bank_dest >= rvth_dest.bank_count
        THEN Fail(-ERANGE, ERANGE)
        ELSE IF ~rvth_dest.is_hdd
        THEN Fail(RVTH_ERROR_NOT_HDD_IMAGE, EIO)
        ELSE
        LET entry_src == rvth_src.entries[bank_src + 1]
            entry_dest == rvth_dest.entries[bank_dest + 1]
            bank_count_dest == rvth_dest.bank_count
            t == entry_src.type
        IN  IF t = RVTH_BankType_Empty
            THEN Fail(RVTH_ERROR_BANK_EMPTY, ENOENT)
            ELSE IF t = RVTH_BankType_Wii_DL_Bank2
            THEN Fail(RVTH_ERROR_BANK_DL_2, EIO)
            ELSE IF t \notin {RVTH_BankType_GCN, RVTH_BankType_Wii_SL,
                              RVTH_BankType_Wii_DL}
            THEN Fail(RVTH_ERROR_BANK_UNKNOWN, EIO)
            ELSE IF t = RVTH_BankType_Wii_DL
            THEN IF ExtendedBankTable(bank_count_dest) /\ bank_dest = 0
                 THEN Fail(RVTH_ERROR_IMPORT_DL_EXT_NO_BANK1, EINVAL)
                 ELSE IF DlLastBank(bank_dest, bank_count_dest)
                 THEN Fail(RVTH_ERROR_IMPORT_DL_LAST_BANK, EINVAL)
                 ELSE IF ~BankEmptyOrDeleted(entry_dest)
                 THEN Fail(RVTH_ERROR_BANK_NOT_EMPTY_OR_DELETED, EEXIST)
                 \* entries[bank_dest+1]: past the array when bank_dest is the
                 \* last bank, which the test before excludes
                 ELSE IF ~BankEmptyOrDeleted(rvth_dest.entries[bank_dest + 2])
                 THEN Fail(RVTH_ERROR_BANK2DL_NOT_EMPTY_OR_DELETED, EEXIST)
                 ELSE IF ImageTooBig(entry_src, bank_dest, bank_count_dest)
                 THEN Fail(RVTH_ERROR_IMAGE_TOO_BIG, ENOSPC)
                 ELSE Fail(0, 0)
            ELSE IF ImageTooBig(entry_src, bank_dest, bank_count_dest)
            THEN Fail(RVTH_ERROR_IMAGE_TOO_BIG, ENOSPC)
            ELSE IF ~BankEmptyOrDeleted(entry_dest)
            THEN Fail(RVTH_ERROR_BANK_NOT_EMPTY_OR_DELETED, EEXIST)
            ELSE Fail(0, 0)

\* The bank-table type written for an entry.
TableTypeOfBank(t) ==
    IF t = RVTH_BankType_GCN THEN NHCD_BankType_GCN
    ELSE IF t = RVTH_BankType_Wii_SL THEN NHCD_BankType_Wii_SL
    ELSE IF t = RVTH_BankType_Wii_DL THEN NHCD_BankType_Wii_DL
    ELSE NHCD_BankType_Empty

\* rvth_write_BankEntry(): the slot of the bank table written for entry.
rvth_write_BankEntry(entry) ==
    [type |-> TableTypeOfBank(entry.type), lba_start |-> entry.lba_start,
     lba_len |-> entry.lba_len, timestamp |-> entry.timestamp]

\* rvth_copy_to_hdd(): from the entry up to the first loop test.  mw is what
\* rvth_make_writable() returns.
CopyToHddEnter_PromoteFirst ==
    /\ call.op \in {"import", "copy_to_hdd"} /\ call.pc = "copy"
    /\ \E mw \in {0, -EROFS}, alloc_ok \in BOOLEAN :
        LET chk == CopyToHddCheck(rvth, call.bank, gcm, call.bank_src)
            entry_src == gcm.entries[call.bank_src + 1]
            entry_dest == rvth.entries[call.bank + 1]
            reader == IF entry_dest.reader = NoReader
                      THEN reader_plain_open("hdd", entry_dest.lba_start,
                                             entry_dest.lba_len, hddData.filesize)
                      ELSE entry_dest.reader
            copied == [entry_dest EXCEPT
                          !.reader = reader,
                          !.lba_len = entry_src.lba_len,
                          !.type = entry_src.type,
                          !.region_code = entry_src.region_code,
                          !.is_deleted = FALSE,
                          !.crypto_type = entry_src.crypto_type,
                          !.ios_version = entry_src.ios_version,
                          !.ticket = entry_src.ticket,
                          !.tmd = entry_src.tmd,
                          !.discHeader = entry_src.discHeader,
                          !.timestamp = IF entry_src.timestamp >= 0
                                        THEN entry_src.timestamp ELSE NowTime]
            lba_buf_max == AlignDownBuf(copied.lba_len)
        IN  IF chk.ret # 0
            THEN /\ call' = CopyReturnDirect(call, chk.ret, chk.err)
                 /\ rvth' = [rvth EXCEPT !.writable = TRUE]
            ELSE IF mw # 0
            THEN /\ call' = CopyReturn(call, mw, IF mw < 0 THEN -mw ELSE EROFS)
                 /\ UNCHANGED rvth
            ELSE IF reader = NoReader
            THEN \* "Cannot create a reader...": err is set, ret is not
                 /\ call' = CopyReturn(call, mw, EINVAL)
                 /\ rvth' = [rvth EXCEPT !.writable = TRUE]
            ELSE IF ~alloc_ok
            THEN /\ call' = CopyReturn(call, -ENOMEM, ENOMEM)
                 /\ rvth' = [rvth EXCEPT !.writable = TRUE,
                                         !.entries[call.bank + 1].reader = reader]
            ELSE /\ call' = [call EXCEPT
                                !.buf = NewBuf, !.mallocs = @ + 1,
                                !.cret = mw,
                                !.lba_copy_len = entry_src.lba_len,
                                !.lba_buf_max = lba_buf_max,
                                !.lba_count = 0,
                                !.pc = CopyNextPc(0, lba_buf_max, entry_src.lba_len)]
                 /\ rvth' = [rvth EXCEPT !.writable = TRUE,
                                         !.entries[call.bank + 1] = copied]
    /\ UNCHANGED <<ndebug, gcm, hddData, gcmData, table, io, cb>>
CopyToHddEnter ==
    /\ call.op \in {"import", "copy_to_hdd"} /\ call.pc = "copy"
    /\ \E mw \in {0, -EROFS}, alloc_ok \in BOOLEAN :
        LET chk == CopyToHddCheck(rvth, call.bank, gcm, call.bank_src)
            entry_src == gcm.entries[call.bank_src + 1]
            entry_dest == rvth.entries[call.bank + 1]
            reader == IF entry_dest.reader = NoReader
                      THEN reader_plain_open("hdd", entry_dest.lba_start,
                                             entry_dest.lba_len, hddData.filesize)
                      ELSE entry_dest.reader
            copied == [entry_dest EXCEPT
                          !.reader = reader,
                          !.lba_len = entry_src.lba_len,
                          !.type = entry_src.type,
                          !.region_code = entry_src.region_code,
                          !.is_deleted = FALSE,
                          !.crypto_type = entry_src.crypto_type,
                          !.ios_version = entry_src.ios_version,
                          !.ticket = entry_src.ticket,
                          !.tmd = entry_src.tmd,
                          !.discHeader = entry_src.discHeader,
                          !.timestamp = IF entry_src.timestamp >= 0
                                        THEN entry_src.timestamp ELSE NowTime]
            lba_buf_max == AlignDownBuf(copied.lba_len)
        IN  IF chk.ret # 0
            THEN /\ call' = CopyReturnDirect(call, chk.ret, chk.err)
                 /\ UNCHANGED rvth
            ELSE IF mw # 0
            THEN /\ call' = CopyReturn(call, mw, IF mw < 0 THEN -mw ELSE EROFS)
                 /\ UNCHANGED rvth
            ELSE IF reader = NoReader
            THEN \* "Cannot create a reader...": err is set, ret is not
                 /\ call' = CopyReturn(call, mw, EINVAL)
                 /\ rvth' = [rvth EXCEPT !.writable = TRUE]
            ELSE IF ~alloc_ok
            THEN /\ call' = CopyReturn(call, -ENOMEM, ENOMEM)
                 /\ rvth' = [rvth EXCEPT !.writable = TRUE,
                                         !.entries[call.bank + 1].reader = reader]
            ELSE /\ call' = [call EXCEPT
                                !.buf = NewBuf, !.mallocs = @ + 1,
                                !.cret = mw,
                                !.lba_copy_len = entry_src.lba_len,
                                !.lba_buf_max = lba_buf_max,
                                !.lba_count = 0,
                                !.pc = CopyNextPc(0, lba_buf_max, entry_src.lba_len)]
                 /\ rvth' = [rvth EXCEPT !.writable = TRUE,
                                         !.entries[call.bank + 1] = copied]
    /\ UNCHANGED <<ndebug, gcm, hddData, gcmData, table, io, cb>>

\* The sectors of a file after the first n sectors of the buffer were
\* written at LBA a.
SectorsAfterBufWrite(sec, a, n, buf, g) ==
    LET nzbuf == {k \in DOMAIN buf.m : k < n}
                 \cup (IF g # ZERO THEN buf.init_upto..(n - 1) ELSE {})
        rest == {j \in DOMAIN sec : j < a \/ j >= a + n}
    IN  [j \in {a + k : k \in nzbuf} \cup rest |->
            IF j \in rest THEN sec[j] ELSE BufSector(buf, j - a, g)]

\* entry_src->reader->read(buf, lba_count, n): the result of the reader and
\* the buffer after it.
CopyToHddRead(n, nd) ==
    LET entry_src == gcm.entries[1]
        rres == reader_plain_read(entry_src.reader, call.lba_count, n,
                                  gcmData.filesize, nd)
        rpos == Wrap32(call.lba_count + entry_src.reader.lba_start)
    IN  [res |-> rres, buf |-> BufAfterRead(call.buf, gcmData.sec, rpos, rres.ret)]

\* entry_dest->reader->write(buf, lba_count, n) after the read rd; g is what
\* an uninitialized sector of the buffer turns out to be.
CopyToHddXfer(rd, n, g, nd) ==
    LET entry_dest == rvth.entries[call.bank + 1]
        wres == reader_plain_write(entry_dest.reader, call.lba_count, n,
                                   hddData.filesize, nd)
        wpos == Wrap32(call.lba_count + entry_dest.reader.lba_start)
    IN  [buf |-> rd.buf,
         aborted |-> rd.res.aborted \/ wres.aborted,
         oor |-> rd.res.oor \/ wres.oor,
         ops |-> IF rd.res.aborted THEN <<>> ELSE rd.res.ops \o wres.ops,
         hdd |-> IF rd.res.aborted \/ wres.ops = <<>> THEN hddData
                 ELSE [hddData EXCEPT
                          !.sec = SectorsAfterBufWrite(hddData.sec, wpos, n, rd.buf, g),
                          !.filesize = Max(hddData.filesize, wpos + n)]]

\* One iteration of "for (lba_count = 0; lba_count < lba_buf_max; ...)".
CopyToHddChunk ==
    /\ call.op = "import" /\ call.pc = "chunk"
    /\ \E nd \in BuildChoices :
       LET rd == CopyToHddRead(LBA_COUNT_BUF, nd)
       IN \E bRet \in CallbackAnswers(call.has_cb),
             g \in GarbageChoices(rd.buf, LBA_COUNT_BUF) :
        LET x == CopyToHddXfer(rd, LBA_COUNT_BUF, g, nd)
            next == call.lba_count + LBA_COUNT_BUF
        IN  /\ cb' = CbLogged(call.has_cb, call.lba_count, call.lba_copy_len, bRet)
            /\ IF ~bRet
               THEN /\ call' = CopyReturn(call, call.cret, ECANCELED)
                    /\ UNCHANGED <<hddData, io, ndebug>>
               ELSE /\ call' = [call EXCEPT
                                   !.buf = x.buf,
                                   !.lba_count = IF x.aborted THEN @ ELSE next,
                                   !.pc = IF x.aborted THEN "aborted"
                                          ELSE CopyNextPc(next, call.lba_buf_max,
                                                          call.lba_copy_len)]
                    /\ hddData' = x.hdd
                    /\ io' = io \o x.ops
                    /\ ndebug' = IF x.oor THEN BuildOf(nd) ELSE ndebug
    /\ UNCHANGED <<rvth, gcm, gcmData, table>>

\* "Process any remaining LBAs.", the completion callback, the flush, the
\* bank-table entry and the return.
CopyToHddFinish ==
    /\ call.op = "import" /\ call.pc \in {"tail", "final"}
    /\ \E nd \in BuildChoices :
       LET lba_left == call.lba_copy_len - call.lba_count
           rd == CopyToHddRead(lba_left, nd)
       IN \E bRet \in CallbackAnswers(call.has_cb),
             g \in (IF call.pc = "tail" THEN GarbageChoices(rd.buf, lba_left)
                    ELSE {ZERO}) :
        LET x == IF call.pc = "tail"
                 THEN CopyToHddXfer(rd, lba_left, g, nd)
                 ELSE [buf |-> call.buf, aborted |-> FALSE, oor |-> FALSE,
                       ops |-> <<>>, hdd |-> hddData]
            entry_dest == rvth.entries[call.bank + 1]
            flushed == << [op |-> "flush", file |-> "hdd", lba |-> 0, n |-> 0] >>
            written == << [op |-> "write_BankEntry", file |-> "hdd",
                           lba |-> call.bank, n |-> 1] >>
        IN  /\ hddData' = x.hdd
            /\ ndebug' = IF x.oor THEN BuildOf(nd) ELSE ndebug
            /\ IF x.aborted
               THEN /\ call' = [call EXCEPT !.buf = x.buf, !.pc = "aborted"]
                    /\ io' = io \o x.ops
                    /\ UNCHANGED <<cb, table>>
               ELSE /\ cb' = CbLogged(call.has_cb, call.lba_copy_len,
                                      call.lba_copy_len, bRet)
                    /\ IF ~bRet
                       THEN /\ call' = CopyReturn(call, call.cret, ECANCELED)
                            /\ io' = io \o x.ops
                            /\ UNCHANGED table
                       ELSE /\ call' = CopyReturn(call, call.cret, call.err)
                            /\ io' = io \o x.ops \o flushed \o written
                            /\ table' = [table EXCEPT ![call.bank + 1] =
                                            rvth_write_BankEntry(entry_dest)]
    /\ UNCHANGED <<rvth, gcm, gcmData>>

(***************************************************************************)
(* rvth_extract.cpp: rvth_import()                                         *)
(***************************************************************************)
\* rvth_import() up to the call of rvth_copy_to_hdd(): the file named is
\* the standalone image gcmData; open_ok is whether rvth_open() succeeds.
ImportBegin(f, img, open_ok) ==
    LET rvth_src == rvth_open_gcm(img)
    IN  IF f.bank >= rvth.bank_count
        THEN [call |-> [f EXCEPT !.pc = "done", !.ret = -ERANGE], gcm |-> gcm]
        ELSE IF ~open_ok
        THEN [call |-> [f EXCEPT !.pc = "done", !.ret = -EIO], gcm |-> gcm]
        ELSE IF rvth_src.is_hdd \/ rvth_src.bank_count > 1
        THEN [call |-> [f EXCEPT !.pc = "done", !.ret = RVTH_ERROR_IS_HDD_IMAGE],
              gcm |-> gcm]
        ELSE [call |-> [f EXCEPT !.pc = "copy"], gcm |-> rvth_src]

ImportStart ==
    /\ call.op = "none" /\ call.pc = "idle"
    /\ rvth.open /\ ~gcm.open
    /\ \E bank \in {b \in ImportBankArgs(rvth.bank_count) : b >= 0},
          has_cb \in BOOLEAN, open_ok \in BOOLEAN :
        LET f == [Frame("import", bank, -1, 0, has_cb) EXCEPT
                     !.old_entries = rvth.entries]
            out == ImportBegin(f, gcmData, open_ok)
        IN  /\ call' = out.call
            /\ gcm' = out.gcm
    /\ UNCHANGED <<ndebug, rvth, hddData, gcmData, table, io, cb>>

\* The follow-up rvth_import() chooses for the imported entry.
ImportFollowup_NoTmdTest(entry) ==
    IF /\ entry.type \in {RVTH_BankType_Wii_SL, RVTH_BankType_Wii_DL}
       /\ \/ entry.crypto_type \in {RVTH_CryptoType_Retail, RVTH_CryptoType_Korean}
          \/ entry.ticket.sig_status # "ok"
    THEN "recrypt_partitions"
    ELSE "recrypt_id"
ImportFollowup(entry) ==
    IF /\ entry.type \in {RVTH_BankType_Wii_SL, RVTH_BankType_Wii_DL}
       /\ \/ entry.crypto_type \in {RVTH_CryptoType_Retail, RVTH_CryptoType_Korean}
          \/ entry.ticket.sig_status # "ok"
          \/ entry.tmd.sig_status # "ok"
    THEN "recrypt_partitions"
    ELSE "recrypt_id"

\* rvth_import() after rvth_copy_to_hdd() has returned.  Of
\* rvth_recrypt_partitions() and rvth_recrypt_id() only the call and its
\* result are modelled.
ImportFinish ==
    /\ call.op = "import" /\ call.pc = "after_copy"
    /\ LET entry == rvth.entries[call.bank + 1]
           step == ImportFollowup(entry)
       IN  IF call.cret = 0
           THEN \E r \in {0, -EIO} :
                 /\ call' = [call EXCEPT !.pc = "done", !.ret = r, !.followup = step]
                 /\ io' = Append(io, IF step = "recrypt_partitions"
                                      THEN [op |-> step, file |-> "hdd", lba |-> call.bank,
                                            n |-> 0, key |-> RVTH_CryptoType_Debug,
                                            ret |-> r]
                                      ELSE [op |-> step, file |-> "hdd", lba |-> call.bank,
                                            n |-> 0, ret |-> r])
           ELSE /\ call' = [call EXCEPT !.pc = "done", !.ret = call.cret]
                /\ UNCHANGED io
    /\ gcm' = [gcm EXCEPT !.open = FALSE]
    /\ UNCHANGED <<ndebug, rvth, hddData, gcmData, table, cb>>

(***************************************************************************)
(* Specification of the import path: an HDD image with one of the bank     *)
(* layouts below, a standalone image, and one rvth_import() call.          *)
(***************************************************************************)
\* A standalone image file: first sector, length, what its ticket and TMD
\* say, and the last sector holding data.
ImportSources ==
    {[first |-> HDR_GCN, len |-> L, crypto |-> RVTH_CryptoType_None, sig |-> "ok",
      tmd_sig |-> "ok"] :
        L \in {1, NHCD_BANK_SIZE_LBA + 1}}
    \cup
    {[first |-> HDR_WII, len |-> ImportChunks * LBA_COUNT_BUF + 1, crypto |-> x[1],
      sig |-> x[2], tmd_sig |-> x[3]] :
        x \in {<<RVTH_CryptoType_Debug, "ok", "ok">>, <<RVTH_CryptoType_Debug, "fail", "ok">>,
               <<RVTH_CryptoType_Debug, "ok", "fail">>, <<RVTH_CryptoType_Retail, "ok", "ok">>,
               <<RVTH_CryptoType_Korean, "ok", "ok">>, <<RVTH_CryptoType_Retail, "fail", "fail">>}}
    \cup
    {[first |-> HDR_WII, len |-> L, crypto |-> RVTH_CryptoType_Debug, sig |-> "ok",
      tmd_sig |-> "ok"] :
        L \in {NHCD_BANK_WII_SL_SIZE_RVTR_LBA + 1, 2 * NHCD_BANK_SIZE_LBA + 1}}
    \cup
    {[first |-> HDR_NOMAGIC, len |-> 1, crypto |-> RVTH_CryptoType_Unknown, sig |-> "ok",
      tmd_sig |-> "ok"]}

\* A GameCube image of exactly one bank, which fits every bank but the
\* first bank of an extended table; it is imported into unused devices.
ImportFullBankSources ==
    {[first |-> HDR_GCN, len |-> NHCD_BANK_SIZE_LBA, crypto |-> RVTH_CryptoType_None,
      sig |-> "ok", tmd_sig |-> "ok"]}

GcmImageOf(src) ==
    [sec |-> [j \in {0, src.len - 1} |-> IF j = 0 THEN src.first ELSE DATA],
     discs |-> << [hdrCached |-> src.first,
                   meta |-> [DiscMeta(src.crypto, src.sig, NoPte) EXCEPT
                               !.tmd.sig_status = src.tmd_sig]] >>,
     filesize |-> src.len]

\* What a slot of the bank table and its bank hold: "E" nothing, "D" a
\* deleted GameCube disc, "G" a GameCube disc, "W" a dual-layer Wii disc.
\* The layouts: an unused device; a device whose first banks hold a deleted
\* disc, a disc and a dual-layer disc, and of which the smallest table also
\* has two deleted banks at its end; a device whose last slot is typed
\* dual-layer.
ImportLayouts(bank_count) ==
    {[i \in 1..bank_count |-> "E"],
     [i \in 1..bank_count |-> IF i = 1 THEN "D" ELSE IF i = 2 THEN "G"
                              ELSE IF i = 3 THEN "W" ELSE IF i = 5 THEN "J"
                              ELSE IF i >= bank_count - 1 /\ bank_count = HddBankCount
                              THEN "D" ELSE "E"],
     [i \in 1..bank_count |-> IF i = bank_count THEN "W"
                              ELSE IF i = bank_count - 1 THEN "D" ELSE "E"]}

LayoutSlot(kind, i, bank_count) ==
    IF kind = "G"
    THEN [type |-> NHCD_BankType_GCN, lba_start |-> NHCD_BANK_START_LBA(i, bank_count),
          lba_len |-> 1, timestamp |-> 500]
    ELSE IF kind = "W"
    THEN [type |-> NHCD_BankType_Wii_DL, lba_start |-> NHCD_BANK_START_LBA(i, bank_count),
          lba_len |-> LBA_COUNT_BUF + 1, timestamp |-> 500]
    ELSE IF kind \in {"X", "J", "S"}
    THEN [type |-> IF kind = "X" THEN NHCD_BankType_Empty
                   ELSE IF kind = "J" THEN NHCD_BankType_Junk ELSE NHCD_BankType_GCN,
          lba_start |-> NHCD_BANK_START_LBA(i, bank_count) + 8,
          lba_len |-> 16, timestamp |-> 500]
    ELSE IF kind = "H"
    THEN [type |-> NHCD_BankType_GCN, lba_start |-> NHCD_BANK_START_LBA(i, bank_count) + 8,
          lba_len |-> 0, timestamp |-> 500]
    ELSE EmptySlot

LayoutTable(lay, bank_count) ==
    [i \in 1..bank_count |-> LayoutSlot(lay[i], i - 1, bank_count)]

LayoutImage(lay, bank_count) ==
    LET Hdr(kind) == IF kind = "W" THEN HDR_WII ELSE HDR_GCN
        used == {i \in 1..bank_count : lay[i] # "E"}
    IN  [sec |-> [j \in {NHCD_BANK_START_LBA(i - 1, bank_count) : i \in used} |->
                    Hdr(lay[CHOOSE i \in used :
                                NHCD_BANK_START_LBA(i - 1, bank_count) = j])],
         discs |-> [i \in 1..bank_count |->
                      IF lay[i] = "E" THEN NoDisc
                      ELSE [hdrCached |-> Hdr(lay[i]),
                            meta |-> DiscMeta(IF lay[i] = "W" THEN RVTH_CryptoType_Debug
                                              ELSE RVTH_CryptoType_None, "ok", NoPte)]],
         filesize |-> HddFileSize(bank_count)]

\* The destination is an HDD image, or (rvth_import() does not look at
\* it) a standalone disc image.
InitImport ==
    /\ ndebug = "unset"
    /\ \/ \E bank_count \in ImportBankCounts :
          \E lay \in ImportLayouts(bank_count) :
            /\ table = LayoutTable(lay, bank_count)
            /\ hddData = LayoutImage(lay, bank_count)
            /\ rvth = rvth_open_hdd(bank_count, LayoutTable(lay, bank_count),
                                    LayoutImage(lay, bank_count))
            /\ \E src \in ImportSources \cup
                           (IF \A i \in 1..bank_count : lay[i] = "E"
                            THEN ImportFullBankSources ELSE {}) :
                  gcmData = GcmImageOf(src)
       \/ \E src \in ImportSources :
            /\ table = <<>>
            /\ hddData = GcmImageOf(src)
            /\ rvth = rvth_open_gcm(GcmImageOf(src))
            /\ gcmData = GcmImageOf(src)
    /\ gcm = NoRvtH
    /\ io = <<>>
    /\ cb = <<>>
    /\ call = NoCall

\* rvth_copy_to_hdd() called on its own, with a bank of the destination
\* image itself as the source: a bank number out of range, or a bank that
\* holds no disc (a bank that holds one is copied as under rvth_import()).
CopyToHddCall ==
    /\ call.op = "none" /\ call.pc = "idle"
    /\ rvth.open /\ ~gcm.open
    /\ \E bank_dest \in {b \in ImportBankArgs(rvth.bank_count) : b >= 0},
          bank_src \in 0..rvth.bank_count :
        /\ IF bank_src >= rvth.bank_count THEN TRUE
           ELSE rvth.entries[bank_src + 1].type \notin
                  {RVTH_BankType_GCN, RVTH_BankType_Wii_SL, RVTH_BankType_Wii_DL}
        /\ call' = [Frame("copy_to_hdd", bank_dest, -1, 0, FALSE) EXCEPT
                       !.pc = "copy", !.bank_src = bank_src,
                       !.old_entries = rvth.entries]
        /\ gcm' = rvth
    /\ UNCHANGED <<ndebug, rvth, hddData, gcmData, table, io, cb>>

NextImport ==
    \/ ImportStart
    \/ CopyToHddCall
    \/ CopyToHddEnter
    \/ CopyToHddChunk
    \/ CopyToHddFinish
    \/ ImportFinish

SpecImport == InitImport /\ [][NextImport]_vars

(***************************************************************************)
(* Specification of the round trip: an HDD image whose first bank holds a  *)
(* disc and whose third bank holds a deleted one, one rvth_extract() of a  *)
(* bank and one rvth_import() of the file it has written.                  *)
(***************************************************************************)
\* The file rvth_extract() has written, with what its ticket and TMD say:
\* what those of the extracted bank say.
ExtractedFile ==
    [gcmData EXCEPT !.discs = << [hdrCached |-> Sector(gcmData.sec, 0),
                                  meta |-> hddData.discs[call.bank + 1].meta] >>]

\* The banks the file is imported into: the one it came from, an unused
\* one, the deleted one and the last one.
RoundTripBankArgs == {0, 1, 2, HddBankCount - 1}

\* rvth_import() of the file a finished rvth_extract() without recryption
\* and without SDK header has written, up to the call of rvth_copy_to_hdd().
\* The frame remembers the bank the file was extracted from.
RoundTripImportStart ==
    /\ call.op = "extract" /\ call.pc = "done" /\ call.ret = 0
    /\ call.followup = "none" /\ ~call.unenc_to_enc /\ call.flags = 0
    /\ \A k \in DOMAIN cb : cb[k].ret
    /\ rvth.open /\ rvth.is_hdd /\ ~gcm.open
    /\ \E bank \in RoundTripBankArgs, has_cb \in BOOLEAN, open_ok \in BOOLEAN :
        LET f0 == [Frame("import", bank, -1, 0, has_cb) EXCEPT
                      !.old_entries = rvth.entries]
            f == [x \in DOMAIN f0 \cup {"extracted"} |->
                    IF x = "extracted" THEN call.bank ELSE f0[x]]
            out == ImportBegin(f, ExtractedFile, open_ok)
        IN  /\ call' = out.call
            /\ gcm' = out.gcm
    /\ cb' = <<>>
    /\ UNCHANGED <<ndebug, rvth, hddData, gcmData, table, io>>

\* The discs of the round trip.
RoundTripDiscs == {d \in ExtractDiscs : d.pte \in {NoPte, GamePte}}

\* The HDD file holding disc d in bank 0 and a deleted GameCube disc in
\* bank 2.
RoundTripImage(d, bank_count) ==
    LET img == HddImageWith(d, bank_count)
        at == NHCD_BANK_START_LBA(2, bank_count)
    IN  [img EXCEPT
            !.sec = [j \in DOMAIN img.sec \cup {at} |->
                        IF j = at THEN HDR_GCN ELSE img.sec[j]],
            !.discs[3] = [hdrCached |-> HDR_GCN,
                          meta |-> DiscMeta(RVTH_CryptoType_None, "ok", NoPte)]]

InitRoundTrip ==
    /\ ndebug = "unset"
    /\ \E d \in RoundTripDiscs :
        /\ table = HddTableWith(d, HddBankCount)
        /\ hddData = RoundTripImage(d, HddBankCount)
        /\ rvth = rvth_open_hdd(HddBankCount, HddTableWith(d, HddBankCount),
                                RoundTripImage(d, HddBankCount))
    /\ gcm = NoRvtH
    /\ gcmData = EmptyImage
    /\ io = <<>>
    /\ cb = <<>>
    /\ call = NoCall

NextRoundTrip ==
    \/ ExtractStart
    \/ CopyToGcmEnter
    \/ CopyToGcmChunk
    \/ CopyToGcmTail
    \/ CopyToGcmFinish
    \/ ExtractDoCrypt
    \/ ExtractFinish
    \/ RoundTripImportStart
    \/ CopyToHddEnter
    \/ CopyToHddChunk
    \/ CopyToHddFinish
    \/ ImportFinish

SpecRoundTrip == InitRoundTrip /\ [][NextRoundTrip]_vars

(***************************************************************************)
(* rvth.c: rvth_open()                                                     *)
(***************************************************************************)
RVTH_ERROR_NHCD_TABLE_MAGIC == 2
RVTH_ERROR_INVALID_BANK_COUNT == 12

\* The length of a file in bytes is kept as whole sectors and a remainder,
\* [lba, rem] standing for lba * LBA_SIZE + rem (an int64_t in the code).
\* len <= 2*LBA_TO_BYTES(NHCD_BANK_SIZE_LBA)
StandaloneLen_Strict(len) ==
    len.lba < 2 * NHCD_BANK_SIZE_LBA
StandaloneLen(len) ==
    \/ len.lba < 2 * NHCD_BANK_SIZE_LBA
    \/ len.lba = 2 * NHCD_BANK_SIZE_LBA /\ len.rem = 0

\* rvth->bank_count < 8 || rvth->bank_count > 32
InvalidBankCount(bank_count) == bank_count < 8 \/ bank_count > 32

\* An int the program has not stored to yet.
NoValue == [set |-> FALSE, val |-> 0]

\* The frame of a running rvth_open(): hdr and rem describe the file (the
\* NHCD header stored in it and the bytes after its last whole sector),
\* errno is the thread's errno, inner the value rvth_open_gcm() or
\* rvth_open_hdd() stored through pErr, pErr the caller's variable.  refs
\* is the reference count of the RefFile, and local, rvth_holds and readers
\* say who holds it: the f_img of rvth_open(), the f_img of the RvtH, and
\* the number of Readers that were opened and not closed.  null_deref is
\* set when rvth_close() has run over bank_count entries of a NULL array.
OpenFrame(c, has_pErr, errno0) ==
    [op |-> "open", pc |-> "idle", hdr |-> c.hdr, rem |-> c.rem,
     has_pErr |-> has_pErr, pErr |-> NoValue, inner |-> NoValue,
     errno |-> errno0, path |-> "none", fault |-> "none", opened |-> FALSE,
     refs |-> 0, local |-> FALSE, rvth_holds |-> FALSE, readers |-> 0,
     null_deref |-> FALSE]

\* The number of entries of an RvtH that have a Reader.
ReaderCount(r) == Cardinality({i \in 1..Len(r.entries) : r.entries[i].reader # NoReader})

\* A store through pErr, which may be NULL.
StorePErr(c, v) == IF c.has_pErr THEN [set |-> TRUE, val |-> v] ELSE c.pErr

\* "fail:" of rvth_open_gcm() / rvth_open_hdd(): *pErr = ret, errno = err
\* unless err is 0, return NULL.
OpenFail(c, ret, err) ==
    [c EXCEPT !.pc = "end", !.inner = StorePErr(c, ret), !.pErr = StorePErr(c, ret),
              !.errno = IF err # 0 THEN err ELSE @]

\* "fail:" when rvth->entries is NULL and bank_count is not 0: what
\* rvth_close() does with rvth->entries[i] is undefined; the process dies
\* there (crash), or it goes on to the end of "fail:".
NullDeref(c, crash, ret, err) ==
    IF crash THEN [c EXCEPT !.pc = "aborted", !.null_deref = TRUE]
    ELSE [OpenFail(c, ret, err) EXCEPT !.null_deref = TRUE]

\* rvth_open() up to the call of rvth_open_gcm() or rvth_open_hdd().
OpenStart ==
    /\ call.op = "none" /\ call.pc = "idle" /\ ~rvth.open
    /\ \E has_pErr \in BOOLEAN, errno0 \in {0, ENOENT}, fault \in {"none", "open", "seek"} :
        LET f == [OpenFrame(call, has_pErr, errno0) EXCEPT
                     !.fault = fault,
                     \* f_img = ref_open(filename)
                     !.refs = IF fault = "open" THEN 0 ELSE 1,
                     !.local = fault # "open"]
            len == [lba |-> hddData.filesize, rem |-> call.rem]
        IN  /\ call' =
                IF fault = "open"
                THEN [f EXCEPT !.pc = "done", !.errno = ENOENT,
                               !.pErr = StorePErr(f, -ENOENT)]
                ELSE IF fault = "seek"
                THEN [f EXCEPT !.pc = "end", !.errno = EIO]
                ELSE IF len.lba = 0 /\ len.rem = 0
                THEN [f EXCEPT !.pc = "end", !.errno = EIO]
                ELSE IF StandaloneLen(len)
                THEN [f EXCEPT !.pc = "open_gcm", !.path = "gcm"]
                ELSE [f EXCEPT !.pc = "open_hdd", !.path = "hdd"]
            /\ io' = IF fault = "open" THEN io
                     ELSE Append(io, [op |-> "seek", file |-> "img",
                                      lba |-> hddData.filesize, n |-> 0])
    /\ UNCHANGED <<ndebug, rvth, gcm, hddData, gcmData, table, cb>>

\* rvth_open_gcm().  A failure to allocate rvth->entries leaves bank_count
\* at 1 with entries NULL, which rvth_close() then dereferences.
OpenGcm ==
    /\ call.op = "open" /\ call.pc = "open_gcm"
    /\ \E fault \in {"none", "seek", "reader", "alloc_rvth", "alloc_entries"},
          nd \in BuildChoices, crash \in BOOLEAN,
          garbage \in {ZERO, HDR_GCN, HDR_WII, HDR_NOMAGIC} :
        LET c == [call EXCEPT !.fault = fault]
            seeks == << [op |-> "seek", file |-> "img", lba |-> hddData.filesize, n |-> 0],
                        [op |-> "seek", file |-> "img", lba |-> 0, n |-> 0] >>
            reader == reader_plain_open("img", 0, hddData.filesize, hddData.filesize)
            rres == reader_plain_read(reader, 0, 1, hddData.filesize, nd)
            \* the header buffer is not initialized when nothing was read
            hdr == IF rres.ret = 1 THEN Sector(hddData.sec, 0) ELSE garbage
            seen == [hddData EXCEPT !.sec =
                        [j \in (DOMAIN hddData.sec \ {0})
                               \cup (IF hdr = ZERO THEN {} ELSE {0}) |->
                            IF j = 0 THEN hdr ELSE hddData.sec[j]]]
            c0 == [c EXCEPT !.errno = 0]
        IN  \* an allocation is not reached when assert() has stopped the process
            /\ rres.aborted => fault \in {"none", "seek", "reader"}
            /\ IF fault = "seek"
               THEN /\ call' = OpenFail(c, -EIO, EIO)
                    /\ io' = io
                    /\ UNCHANGED <<rvth, ndebug>>
               ELSE IF fault = "reader"
               THEN \* ret is still the 0 that ref_seeko() returned
                    /\ call' = OpenFail([c EXCEPT !.errno = ENOMEM], 0, 0)
                    /\ io' = io \o seeks
                    /\ UNCHANGED <<rvth, ndebug>>
               ELSE IF rres.aborted
               THEN \* the Reader holds the file when assert() stops the process
                    /\ call' = [c0 EXCEPT !.pc = "aborted", !.refs = @ + 1,
                                          !.readers = 1]
                    /\ io' = io \o seeks
                    /\ ndebug' = BuildOf(nd)
                    /\ UNCHANGED rvth
               ELSE /\ io' = io \o seeks \o rres.ops
                    /\ ndebug' = IF rres.oor THEN BuildOf(nd) ELSE ndebug
                    /\ IF fault = "alloc_rvth"
                       THEN /\ call' = OpenFail(c0, -ENOMEM, ENOMEM)
                            /\ UNCHANGED rvth
                       ELSE IF fault = "alloc_entries"
                       THEN \* reader_close(reader), then rvth_close(rvth)
                            /\ call' = NullDeref(c0, crash, -ENOMEM, ENOMEM)
                            /\ UNCHANGED rvth
                       ELSE \* the Reader and rvth->f_img = ref_dup(f_img)
                            /\ call' = [c0 EXCEPT !.pc = "end", !.opened = TRUE,
                                                  !.refs = @ + 2, !.readers = 1,
                                                  !.rvth_holds = TRUE]
                            /\ rvth' = rvth_open_gcm(seen)
    /\ UNCHANGED <<gcm, hddData, gcmData, table, cb>>

\* rvth_open_hdd().  With a bank count out of range, or when rvth->entries
\* cannot be allocated, rvth_close() runs over bank_count entries of a NULL
\* array.  What rvth_init_BankEntry() leaves in errno is not known.
OpenHdd ==
    /\ call.op = "open" /\ call.pc = "open_hdd"
    /\ \E fault \in {"none", "read_header", "alloc_rvth", "alloc_entries", "read_entry"},
          crash \in BOOLEAN, errno1 \in {call.errno, 0, EINVAL} :
        LET c == [call EXCEPT !.fault = fault]
            bank_count == call.hdr.bank_count
            stale == IF call.errno = 0 THEN ENOMEM ELSE call.errno
            header == << [op |-> "seek", file |-> "img",
                          lba |-> NHCD_BANKTABLE_ADDRESS_LBA, n |-> 0],
                         [op |-> "read", file |-> "img",
                          lba |-> NHCD_BANKTABLE_ADDRESS_LBA, n |-> 1] >>
        IN  \* a step that is not reached cannot fail
            /\ ~call.hdr.magic_ok => fault \in {"none", "read_header"}
            /\ InvalidBankCount(bank_count) => fault \in {"none", "read_header", "alloc_rvth"}
            /\ io' = io \o header \o
                     (IF ~call.hdr.magic_ok \/ InvalidBankCount(bank_count)
                         \/ fault \notin {"none", "read_entry"}
                      THEN <<>>
                      ELSE LET reads == OpenHddReads(bank_count,
                                            rvth_open_hdd(bank_count, table, hddData).entries)
                           IN  IF fault = "none" THEN reads
                               \* the read of the first entry fails
                               ELSE SubSeq(reads, 1, 1))
            /\ IF fault = "read_header"
               THEN /\ call' = OpenFail(c, -EIO, EIO)
                    /\ UNCHANGED rvth
               ELSE IF ~call.hdr.magic_ok
               THEN /\ call' = OpenFail(c, RVTH_ERROR_NHCD_TABLE_MAGIC, EIO)
                    /\ UNCHANGED rvth
               ELSE IF fault = "alloc_rvth"
               THEN /\ call' = OpenFail(c, -ENOMEM, ENOMEM)
                    /\ UNCHANGED rvth
               ELSE IF InvalidBankCount(bank_count)
               THEN /\ call' = IF bank_count > 0
                               THEN NullDeref(c, crash, -stale, stale)
                               ELSE OpenFail(c, -stale, stale)
                    /\ UNCHANGED rvth
               ELSE IF fault = "alloc_entries"
               THEN /\ call' = NullDeref(c, crash, -ENOMEM, ENOMEM)
                    /\ UNCHANGED rvth
               ELSE IF fault = "read_entry"
               THEN \* rvth_close() closes the Readers of the entries that
                    \* were initialized and the f_img of the RvtH
                    /\ call' = OpenFail(c, -EIO, EIO)
                    /\ UNCHANGED rvth
               ELSE LET opened == rvth_open_hdd(bank_count, table, hddData)
                    IN  /\ call' = [c EXCEPT !.pc = "end", !.opened = TRUE,
                                             !.errno = errno1,
                                             !.refs = @ + 1 + ReaderCount(opened),
                                             !.readers = ReaderCount(opened),
                                             !.rvth_holds = TRUE]
                        /\ rvth' = opened
    /\ UNCHANGED <<ndebug, gcm, hddData, gcmData, table, cb>>

\* "end:" of rvth_open(): *pErr = -errno; ref_close(f_img); return rvth.
OpenEnd ==
    /\ call.op = "open" /\ call.pc = "end"
    /\ call' = [call EXCEPT !.pc = "done", !.pErr = StorePErr(call, -call.errno),
                            !.refs = @ - 1, !.local = FALSE]
    /\ UNCHANGED <<ndebug, rvth, gcm, hddData, gcmData, table, io, cb>>

\* rvth_close() of the RvtH rvth_open() has returned: reader_close() for
\* every entry that has a Reader, then ref_close(rvth->f_img).
OpenClose ==
    /\ call.op = "open" /\ call.pc = "done" /\ call.opened /\ rvth.open
    /\ call' = [call EXCEPT !.pc = "closed",
                            !.refs = @ - ReaderCount(rvth) - 1,
                            !.readers = @ - ReaderCount(rvth),
                            !.rvth_holds = FALSE]
    /\ rvth' = [rvth EXCEPT !.open = FALSE]
    /\ UNCHANGED <<ndebug, gcm, hddData, gcmData, table, io, cb>>

(***************************************************************************)
(* Specification of rvth_open(): one file, one call.                       *)
(***************************************************************************)
\* The lengths of the files opened: empty, less than a sector, one sector,
\* one sector and some bytes, exactly two banks, two banks and a byte, two
\* banks and a sector, and an HDD of 8, 9 and 32 banks.
OpenFileLens ==
    {[lba |-> 0, rem |-> 0], [lba |-> 0, rem |-> 100], [lba |-> 1, rem |-> 0],
     [lba |-> 1, rem |-> 5], [lba |-> 2 * NHCD_BANK_SIZE_LBA, rem |-> 0],
     [lba |-> 2 * NHCD_BANK_SIZE_LBA, rem |-> 1],
     [lba |-> 2 * NHCD_BANK_SIZE_LBA + 1, rem |-> 0]}
    \cup {[lba |-> HddFileSize(n), rem |-> 0] : n \in {8, 9, 32}}

\* The bank counts stored in the NHCD header of the file.
OpenBankCounts == {0, 7, 8, 9, 32, 33}

\* The banks of an HDD image with a valid header: a deleted GameCube disc,
\* a GameCube disc, a dual-layer disc and its second bank, then slots that
\* list a start 8 sectors into the bank: "X" typed Empty, "J" of a type
\* the switch does not know, "S" a GameCube disc, all three with a length
\* of 16, and "H" a GameCube disc with a length of 0; then unused banks.
OpenLayout(bank_count) ==
    [i \in 1..bank_count |-> IF i = 1 THEN "D" ELSE IF i = 2 THEN "G"
                             ELSE IF i = 3 THEN "W"
                             ELSE IF i = 5 THEN "X" ELSE IF i = 6 THEN "J"
                             ELSE IF i = 7 THEN "S" ELSE IF i = 8 THEN "H"
                             ELSE "E"]

\* The file: its first sector, the sectors of its banks, its length.
OpenImage(first, len, bank_count) ==
    LET lay == IF InvalidBankCount(bank_count)
               THEN [sec |-> EmptySectors, discs |-> << NoDisc >>, filesize |-> 0]
               ELSE LayoutImage(OpenLayout(bank_count), bank_count)
        dom == {j \in DOMAIN lay.sec : j < len.lba /\ j > 0}
               \cup (IF first # ZERO /\ len.lba > 0 THEN {0} ELSE {})
    IN  [sec |-> [j \in dom |-> IF j = 0 THEN first ELSE lay.sec[j]],
         discs |-> [i \in DOMAIN lay.discs |->
                      IF i = 1 /\ HasMagic(first)
                      THEN [hdrCached |-> first,
                            meta |-> DiscMeta(RVTH_CryptoType_None, "ok", NoPte)]
                      ELSE lay.discs[i]],
         filesize |-> len.lba]

InitOpen ==
    /\ ndebug = "unset"
    /\ rvth = NoRvtH
    /\ gcm = NoRvtH
    /\ gcmData = EmptyImage
    /\ io = <<>>
    /\ cb = <<>>
    /\ \E len \in OpenFileLens, first \in {ZERO, HDR_GCN, HDR_WII},
          magic_ok \in BOOLEAN, bank_count \in OpenBankCounts :
        /\ hddData = OpenImage(first, len, bank_count)
        /\ table = IF InvalidBankCount(bank_count) THEN <<>>
                   ELSE LayoutTable(OpenLayout(bank_count), bank_count)
        /\ call = [op |-> "none", pc |-> "idle",
                   hdr |-> [magic_ok |-> magic_ok, bank_count |-> bank_count],
                   rem |-> len.rem]

NextOpen ==
    \/ OpenStart
    \/ OpenGcm
    \/ OpenHdd
    \/ OpenEnd
    \/ OpenClose

SpecOpen == InitOpen /\ [][NextOpen]_vars

(***************************************************************************)
(* Properties of the plain reader                                          *)
(***************************************************************************)
\* C4: a read or write with lba_rel + n > lba_len returns 0 and issues no
\* seek, read or write on the file, also when a 32-bit sum wraps; no file
\* operation ever targets a sector outside the reader's window.
C4_ReaderBoundsStrict ==
    call.op \in {"read", "write"} =>
        /\ ReaderOutOfRange_NoWrap(call.reader, call.lba_rel, call.n) =>
              (call.ret = 0 /\ io = <<>>)
        /\ \A k \in DOMAIN io :
              /\ io[k].lba >= call.reader.lba_start
              /\ io[k].lba + io[k].n <= call.reader.lba_start + call.reader.lba_len

(***************************************************************************)
(* Properties of the extract path                                          *)
(***************************************************************************)
\* The progress callback has answered false.
Cancelled == \E k \in DOMAIN cb : ~cb[k].ret

\* rvth_copy_to_gcm() has returned 0 after running to its end.
CopyToGcmSucceeded ==
    /\ call.op = "extract" /\ call.pc = "after_copy"
    /\ ~call.unenc_to_enc
    /\ call.cret = 0
    /\ ~Cancelled

SrcEntry == rvth.entries[call.bank + 1]
SrcSector(i) == Sector(hddData.sec, SrcEntry.reader.lba_start + i)
\* Sector i of the destination as seen through the destination reader.
DestSector(i) == Sector(gcmData.sec, gcm.entries[1].reader.lba_start + i)

\* C1: after a successful rvth_copy_to_gcm() without SDK header and without
\* recryption of a bank whose stored header has its magic, every sector of
\* the destination equals the source's, whatever the length of the bank.
C1_ExtractFaithful ==
    (/\ CopyToGcmSucceeded
     /\ call.flags = 0 /\ call.recrypt_key = -1
     /\ HasMagic(SrcSector(0)))
    => \A i \in 0..(SrcEntry.lba_len - 1) : DestSector(i) = SrcSector(i)

\* C2: when the progress callback has answered false, the copy function
\* returns -ECANCELED.
C2_CancelReturnsECANCELED ==
    (call.op \in {"extract", "import"} /\ call.pc = "after_copy" /\ Cancelled)
    => call.cret = -ECANCELED

\* C3: once the progress callback has answered false, no further file
\* operation is issued: no read, no write, no bank-table write and no
\* recryption step.
C3_NoIoAfterCancel == [][Cancelled => io' = io]_vars

\* C5: after a successful rvth_copy_to_gcm() of a bank whose stored first
\* sector has neither magic, the first sector of the destination is the
\* cached disc header of the source entry, whatever the length of the bank.
C5_HeaderRestored ==
    (/\ CopyToGcmSucceeded
     /\ SrcEntry.lba_len >= 1
     /\ ~HasMagic(SrcSector(0)))
    => DestSector(0) = SrcEntry.discHeader

\* The error rvth_extract() owes to a bank that cannot be extracted.
ExtractErrorOfType(t) ==
    IF t = RVTH_BankType_Empty THEN RVTH_ERROR_BANK_EMPTY
    ELSE IF t = RVTH_BankType_Wii_DL_Bank2 THEN RVTH_ERROR_BANK_DL_2
    ELSE RVTH_ERROR_BANK_UNKNOWN

\* C6: rvth_extract() of an Empty, Wii_DL_Bank2 or Unknown bank never
\* returns 0, and the error of the library it returns is the one of the
\* bank type, for every flags and recrypt_key.
C6_ExtractRejectsNonDiscs ==
    (/\ call.op = "extract" /\ call.pc = "done"
     /\ call.bank < rvth.bank_count
     /\ SrcEntry.type \in {RVTH_BankType_Empty, RVTH_BankType_Wii_DL_Bank2,
                           RVTH_BankType_Unknown})
    => /\ call.ret # 0
       /\ call.ret > 0 => call.ret = ExtractErrorOfType(SrcEntry.type)

(***************************************************************************)
(* Properties of the import path                                           *)
(***************************************************************************)
\* rvth_import() into an HDD image has called rvth_copy_to_hdd(); the
\* source entry and the destination entry of the call.
ImportCopyEntered == call.op = "import" /\ gcm.bank_count = 1 /\ rvth.is_hdd
ImportSrc == gcm.entries[1]
ImportDest == rvth.entries[call.bank + 1]

\* C7: rvth_copy_to_hdd() of a dual-layer source fails with
\* RVTH_ERROR_IMPORT_DL_LAST_BANK when bank_dest is the last bank, whatever
\* the banks hold and whatever the bank count, and with
\* RVTH_ERROR_IMPORT_DL_EXT_NO_BANK1 when the table is extended and
\* bank_dest is 0.
C7_DlPositionRejected ==
    (/\ ImportCopyEntered /\ call.pc = "after_copy"
     /\ ImportSrc.type = RVTH_BankType_Wii_DL)
    => /\ call.bank = rvth.bank_count - 1
            => call.cret = RVTH_ERROR_IMPORT_DL_LAST_BANK
       /\ (rvth.bank_count > 8 /\ call.bank = 0)
            => call.cret = RVTH_ERROR_IMPORT_DL_EXT_NO_BANK1

\* A dual-layer import into the last bank of an extended table, the last
\* slot of which is itself typed dual-layer, was rejected.
C7_Witness ==
    /\ ImportCopyEntered /\ call.pc = "after_copy"
    /\ ImportSrc.type = RVTH_BankType_Wii_DL
    /\ rvth.bank_count > 8
    /\ call.bank = rvth.bank_count - 1
    /\ ImportDest.type = RVTH_BankType_Wii_DL
    /\ call.cret = RVTH_ERROR_IMPORT_DL_LAST_BANK

\* Bank b was Empty or deleted when rvth_import() was called.
WasEmptyOrDeleted(b) ==
    /\ b < rvth.bank_count
    /\ \/ call.old_entries[b + 1].type = RVTH_BankType_Empty
       \/ call.old_entries[b + 1].is_deleted

\* The import has changed the destination: an entry, the data of the file
\* or the bank table.
ImportWritten ==
    \/ rvth.entries # call.old_entries
    \/ \E k \in DOMAIN io :
          /\ io[k].file = "hdd"
          /\ io[k].op \in {"write", "write_BankEntry", "recrypt_id",
                           "recrypt_partitions"}

\* The source passes every test rvth_copy_to_hdd() makes before it looks
\* at what the destination bank holds.
ImportReachesBankTest ==
    IF ImportSrc.type = RVTH_BankType_Wii_DL
    THEN /\ ~(rvth.bank_count > 8 /\ call.bank = 0)
         /\ call.bank # rvth.bank_count - 1
    ELSE /\ ImportSrc.type \in {RVTH_BankType_GCN, RVTH_BankType_Wii_SL}
         /\ ImportSrc.lba_len <= NHCD_BANK_SIZE_LBA
         /\ ~(/\ call.bank = 0 /\ rvth.bank_count > 8
              /\ ImportSrc.lba_len > NHCD_EXTBANKTABLE_BANK_1_SIZE_LBA)

C9_DlFollowedByBank2 ==
    (\/ call.pc = "idle"
     \/ call.op = "import" /\ call.pc = "done" /\ call.ret = 0)
    => \A i \in 1..rvth.bank_count :
          rvth.entries[i].type = RVTH_BankType_Wii_DL =>
             /\ i + 1 <= rvth.bank_count
             /\ rvth.entries[i + 1] =
                   [ZeroEntry EXCEPT !.type = RVTH_BankType_Wii_DL_Bank2,
                                     !.timestamp = -1]

\* C10: after a successful rvth_copy_to_hdd() (it returns 0 and reports no
\* error through errno) the destination entry has a reader whose window is
\* as long as the entry, which is as long as the source.
C10_ReaderWindowMatches ==
    (/\ ImportCopyEntered /\ call.pc = "after_copy"
     /\ call.cret = 0 /\ call.err = 0)
    => /\ ImportDest.reader # NoReader
       /\ ImportDest.reader.lba_len = ImportDest.lba_len
       /\ ImportDest.lba_len = ImportSrc.lba_len

\* The cap of the destination for the source: two banks for a dual-layer
\* image, the first bank of an extended table, or one bank.
ImportCap ==
    IF ImportSrc.type = RVTH_BankType_Wii_DL THEN 2 * NHCD_BANK_SIZE_LBA
    ELSE IF call.bank = 0 /\ rvth.bank_count > 8 THEN NHCD_EXTBANKTABLE_BANK_1_SIZE_LBA
    ELSE NHCD_BANK_SIZE_LBA

\* The source is a disc and passes every test rvth_copy_to_hdd() makes
\* before it looks at the size of the image.
ImportReachesSizeTest ==
    /\ call.bank < rvth.bank_count
    /\ ImportSrc.type \in {RVTH_BankType_GCN, RVTH_BankType_Wii_SL, RVTH_BankType_Wii_DL}
    /\ ImportSrc.type = RVTH_BankType_Wii_DL =>
          /\ ~(rvth.bank_count > 8 /\ call.bank = 0)
          /\ call.bank # rvth.bank_count - 1
          /\ WasEmptyOrDeleted(call.bank)
          /\ WasEmptyOrDeleted(call.bank + 1)

OpenReturned == call.op = "open" /\ call.pc = "done"

\* C12: opening an HDD image whose NHCD header has the right magic and a
\* bank count outside 8..32 returns no RvtH, and the error the caller is
\* given is RVTH_ERROR_INVALID_BANK_COUNT.
C12_InvalidBankCountReported ==
    (/\ OpenReturned /\ call.path = "hdd"
     /\ call.hdr.magic_ok
     /\ call.fault \notin {"read_header", "alloc_rvth"}
     /\ (call.hdr.bank_count < 8 \/ call.hdr.bank_count > 32))
    => /\ ~call.opened
       /\ call.has_pErr => call.pErr.val = RVTH_ERROR_INVALID_BANK_COUNT

\* C13: rvth_open() of an HDD-sized file whose bank table does not start
\* with the NHCD magic returns NULL and gives the caller
\* RVTH_ERROR_NHCD_TABLE_MAGIC; whatever rvth_open_hdd() or rvth_open_gcm()
\* stored through pErr is what the caller of rvth_open() finds there.
C13_MagicErrorDelivered ==
    (OpenReturned /\ call.has_pErr)
    => /\ (call.path = "hdd" /\ ~call.hdr.magic_ok /\ call.fault # "read_header")
            => (~call.opened /\ call.pErr.val = RVTH_ERROR_NHCD_TABLE_MAGIC)
       /\ call.inner.set => call.pErr.val = call.inner.val

\* The file is empty; the file is at most two banks long.
OpenLenZero == hddData.filesize = 0 /\ call.rem = 0
OpenLenAtMostTwoBanks ==
    \/ hddData.filesize < 2 * NHCD_BANK_SIZE_LBA
    \/ hddData.filesize = 2 * NHCD_BANK_SIZE_LBA /\ call.rem = 0

\* The NHCD header of the file was read.
OpenTableRead ==
    \E k \in DOMAIN io : io[k].op = "read" /\ io[k].lba = NHCD_BANKTABLE_ADDRESS_LBA

\* C14: the length of the file alone decides how rvth_open() opens it.  An
\* empty file gives no RvtH.  A non-empty file of at most two banks is
\* handed to rvth_open_gcm(): the bank table is not read and the object
\* returned is a standalone image of one bank, which a file of at least a
\* sector always gets when no seek and no allocation fails.  A longer file
\* is handed to rvth_open_hdd(): the bank table is read and the object
\* returned is an HDD image with the bank count stored, which a file with
\* the NHCD magic and a bank count of 8..32 always gets when no read and no
\* allocation fails.
C14_ClassifiedByLength ==
    (OpenReturned /\ call.fault \notin {"open", "seek"})
    => IF OpenLenZero
       THEN ~call.opened /\ call.path = "none" /\ ~OpenTableRead
       ELSE IF OpenLenAtMostTwoBanks
       THEN /\ call.path = "gcm"
            /\ ~OpenTableRead
            /\ call.opened => (~rvth.is_hdd /\ rvth.bank_count = 1)
            /\ (call.fault = "none" /\ hddData.filesize >= 1) => call.opened
       ELSE /\ call.path = "hdd"
            /\ OpenTableRead
            /\ call.opened => (rvth.is_hdd /\ rvth.bank_count = call.hdr.bank_count)
            /\ (/\ call.fault = "none" /\ call.hdr.magic_ok
                /\ call.hdr.bank_count \in 8..32) => call.opened

\* A file of exactly two banks was opened as a standalone image.
C14_Witness ==
    /\ OpenReturned /\ call.opened
    /\ hddData.filesize = 2 * NHCD_BANK_SIZE_LBA /\ call.rem = 0
    /\ ~rvth.is_hdd /\ rvth.bank_count = 1
    /\ ~OpenTableRead

(***************************************************************************)
(* Properties of the NDEV preamble                                         *)
(***************************************************************************)
\* C15: rvth_extract() with PREPEND_SDK_HEADER of a GameCube bank returns
\* RVTH_ERROR_NDEV_GCN_NOT_SUPPORTED, and it does so before the destination
\* is created and before any read or write.
C15_NdevGcnRejectedFirst ==
    (/\ call.op = "extract" /\ call.bank < rvth.bank_count
     /\ HasFlag(call.flags, RVTH_EXTRACT_PREPEND_SDK_HEADER)
     /\ SrcEntry.type = RVTH_BankType_GCN)
    => /\ call.pc = "done"
       /\ call.ret = RVTH_ERROR_NDEV_GCN_NOT_SUPPORTED
       /\ io = <<>>
       /\ gcm = NoRvtH /\ gcmData = EmptyImage

\* The extraction with a preamble of a GameCube disc of a full buffer and a
\* tail was refused.
C15_Witness ==
    /\ call.op = "extract" /\ call.pc = "done" /\ call.bank = 0
    /\ HasFlag(call.flags, RVTH_EXTRACT_PREPEND_SDK_HEADER)
    /\ SrcEntry.type = RVTH_BankType_GCN /\ ~SrcEntry.is_deleted
    /\ SrcEntry.lba_len = LBA_COUNT_BUF + 513
    /\ call.ret = RVTH_ERROR_NDEV_GCN_NOT_SUPPORTED
    /\ io = <<>>

\* rvth_extract() with PREPEND_SDK_HEADER of a Wii bank has written the
\* preamble and is copying, or has copied.
SdkCopyStarted ==
    /\ call.op = "extract" /\ call.bank < rvth.bank_count
    /\ HasFlag(call.flags, RVTH_EXTRACT_PREPEND_SDK_HEADER)
    /\ SrcEntry.type \in {RVTH_BankType_Wii_SL, RVTH_BankType_Wii_DL}
    /\ call.pc \in {"copy", "docrypt", "chunk", "tail", "final", "after_copy"}

\* The preamble was the first thing written: the file was created, then 64
\* sectors were written at LBA 0, and they still hold FF FF at 0x0000,
\* E0 06 at 0x082E, 01 at 0x0844 and zero everywhere else.
SdkPreambleFirst ==
    /\ Len(io) >= 3
    /\ io[1].op = "create"
    /\ io[2] = [op |-> "seek", file |-> "gcm", lba |-> 0, n |-> 0]
    /\ io[3] = [op |-> "write", file |-> "gcm", lba |-> 0, n |-> SDK_HEADER_SIZE_LBA]
    /\ \A t \in 0..(SDK_HEADER_SIZE_LBA - 1) : Sector(gcmData.sec, t) = SdkHeaderSector(t)

\* The window of the destination starts after the preamble and no seek or
\* write of the copy goes below it.
SdkCopyAfterPreamble ==
    /\ gcm.entries[1].reader.lba_start = SDK_HEADER_SIZE_LBA
    /\ \A k \in 4..Len(io) :
          io[k].op \in {"seek", "write"} => io[k].lba >= SDK_HEADER_SIZE_LBA

\* C16: rvth_extract() with PREPEND_SDK_HEADER of a Wii bank writes the
\* 64-sector preamble first, then moves the window of the destination
\* forward by 64 sectors, then copies; no write of the copy touches the
\* first 64 sectors, and after a successful copy the disc header of the
\* bank is the sector at byte 32768 of the file.
C16_SdkPreambleThenCopy ==
    SdkCopyStarted
    => /\ SdkPreambleFirst
       /\ SdkCopyAfterPreamble
       /\ CopyToGcmSucceeded =>
             Sector(gcmData.sec, BYTES_TO_LBA(32768)) = SrcEntry.discHeader

\* rvth_extract() converts an unencrypted Wii bank into an encrypted image.
UnencToEncExtract ==
    /\ call.op = "extract" /\ call.bank < rvth.bank_count
    /\ SrcEntry.type \in {RVTH_BankType_Wii_SL, RVTH_BankType_Wii_DL}
    /\ SrcEntry.crypto_type = RVTH_CryptoType_None
    /\ call.recrypt_key > RVTH_CryptoType_Unknown

\* ceil(raw/3968)*4096 + 256 + lba_start, raw being lba_len - 64, and 64
\* more with PREPEND_SDK_HEADER, as a 32-bit unsigned number.
UnencToEncLength(pte, flags) ==
    LET raw == pte.lba_len - 64
        groups == (raw + 3967) \div 3968
    IN  (((groups * 4096) % WORD) + 256 + pte.lba_start
         + (IF HasFlag(flags, RVTH_EXTRACT_PREPEND_SDK_HEADER) THEN 64 ELSE 0)) % WORD

ImportedNeedsDebug ==
    LET entry == rvth.entries[call.bank + 1]
    IN  /\ entry.type \in {RVTH_BankType_Wii_SL, RVTH_BankType_Wii_DL}
        /\ \/ entry.crypto_type = RVTH_CryptoType_Retail
           \/ entry.crypto_type = RVTH_CryptoType_Korean
           \/ entry.ticket.sig_status # "ok"
           \/ entry.tmd.sig_status # "ok"

ProgressExpected(lba_total) ==
    LET n == (lba_total + LBA_COUNT_BUF - 1) \div LBA_COUNT_BUF
    IN  [k \in 1..(n + 1) |-> IF k <= n THEN (k - 1) * LBA_COUNT_BUF ELSE lba_total]

\* rvth_copy_to_gcm() or rvth_copy_to_hdd() has run to its end with a
\* callback that never cancelled.
CopyRanWithCallback ==
    /\ call.op \in {"extract", "import"} /\ call.pc = "after_copy"
    /\ call.has_cb /\ ~Cancelled
    /\ call.lba_copy_len > 0

\* C20: with a callback that never cancels, rvth_copy_to_gcm() and
\* rvth_copy_to_hdd() invoke it first with lba_processed 0, then once for
\* every further multiple of 2048 below lba_total in increasing order,
\* the one at which the tail starts included, and last with lba_processed
\* equal to lba_total; lba_processed never decreases nor exceeds lba_total.
C20_ProgressSequence ==
    CopyRanWithCallback
    => /\ [k \in 1..Len(cb) |-> cb[k].lba_processed] = ProgressExpected(call.lba_copy_len)
       /\ \A k \in 1..Len(cb) : cb[k].lba_total = call.lba_copy_len

\* rvth_import() of an extracted file into a bank that was Empty or deleted
\* has returned 0 and was not cancelled.
RoundTripImported ==
    /\ call.op = "import" /\ call.pc = "done" /\ call.ret = 0
    /\ "extracted" \in DOMAIN call
    /\ ~Cancelled
    /\ \/ call.old_entries[call.bank + 1].type = RVTH_BankType_Empty
       \/ call.old_entries[call.bank + 1].is_deleted

\* rvth_import() has refused the extracted file as holding no disc.
RoundTripRejected ==
    /\ call.op = "import" /\ call.pc = "done"
    /\ "extracted" \in DOMAIN call
    /\ call.ret \in {RVTH_ERROR_BANK_EMPTY, RVTH_ERROR_BANK_UNKNOWN}

\* C19: extracting a bank B without recryption and importing the file into
\* an Empty bank yields an entry with B's disc header, lba_len, type,
\* region_code, ios_version, ticket and tmd, is_deleted false, and the
\* timestamp of the imported source when that is >= 0 and the current time
\* otherwise.
C19_RoundTrip ==
    /\ ~RoundTripRejected
    /\ RoundTripImported
       => LET B == call.old_entries[call.extracted + 1]
              B2 == rvth.entries[call.bank + 1]
              source == gcm.entries[1]
          IN  /\ B2.discHeader = B.discHeader
              /\ B2.lba_len = B.lba_len
              /\ B2.type = B.type
              /\ B2.region_code = B.region_code
              /\ B2.ios_version = B.ios_version
              /\ B2.ticket = B.ticket
              /\ B2.tmd = B.tmd
              /\ ~B2.is_deleted
              /\ B2.timestamp = IF source.timestamp >= 0 THEN source.timestamp
                                ELSE NowTime

\* The file rvth_copy_to_gcm() / rvth_copy_to_hdd() writes to.
DestFile == IF call.op = "extract" THEN "gcm" ELSE "hdd"

\* The positions in the log of the writes the copy has made to its
\* destination.
DestWrites == {k \in 1..Len(io) : io[k].op = "write" /\ io[k].file = DestFile}

\* C21: when an extract or import is cancelled by the progress callback
\* after at least one destination write, the destination reader is flushed
\* before the operation returns.
C21_FlushedOnCancel ==
    (/\ call.op \in {"extract", "import"} /\ call.pc = "done"
     /\ Cancelled /\ DestWrites # {})
    => \E f \in 1..Len(io) :
          /\ io[f].op = "flush" /\ io[f].file = DestFile
          /\ \A k \in DestWrites : k < f

\* The positions in the log at which rvth_write_BankEntry() was called.
TableWrites == {k \in 1..Len(io) : io[k].op = "write_BankEntry"}

\* Before position t of the log every sector of the image, of lba_copy_len
\* sectors, was written into the window of the destination bank, one
\* buffer after the other, and the destination was flushed after the last
\* of these writes.
ImageWrittenBefore(t) ==
    LET start == rvth.entries[call.bank + 1].lba_start
        total == call.lba_copy_len
        W == {k \in 1..(t - 1) : io[k].op = "write" /\ io[k].file = "hdd"}
        chunks == (total + LBA_COUNT_BUF - 1) \div LBA_COUNT_BUF
    IN  /\ {io[k].lba : k \in W} = {start + c * LBA_COUNT_BUF : c \in 0..(chunks - 1)}
        /\ \A k \in W : io[k].n = Min(LBA_COUNT_BUF, start + total - io[k].lba)
        /\ \E f \in 1..(t - 1) :
              /\ io[f].op = "flush" /\ io[f].file = "hdd"
              /\ \A k \in W : k < f

\* rvth_copy_to_hdd() has returned.
CopyToHddReturned == call.op = "import" /\ call.pc = "after_copy"

\* C22: rvth_copy_to_hdd() writes the bank table exactly once per
\* successful import, for slot bank_dest only, and only after every data
\* LBA of the image was written and the destination reader flushed; a
\* failing or cancelled import writes no bank-table entry.
C22_TableWrittenOnceAtEnd ==
    CopyToHddReturned
    => /\ \A t \in TableWrites : io[t].lba = call.bank /\ ImageWrittenBefore(t)
       /\ IF call.cret = 0 /\ ~Cancelled
          THEN Cardinality(TableWrites) = 1
          ELSE TableWrites = {}

\* Who holds the file: rvth_open() itself, the RvtH, and the Readers.
FileHolders ==
    (IF call.local THEN 1 ELSE 0) + (IF call.rvth_holds THEN 1 ELSE 0) + call.readers

\* C23: for every outcome of rvth_open() and a later rvth_close(), every
\* reference to the file that was acquired (ref_open, the ref_dup of the
\* RvtH, one per Reader) is released exactly once: the count is the number
\* of holders at every moment, and it is zero once rvth_open() has failed,
\* at whatever step, or the RvtH was closed.
C23_RefsBalanced ==
    (call.op = "open")
    => /\ call.refs = FileHolders
       /\ call.readers >= 0
       /\ (call.pc = "done" /\ ~call.opened) => call.refs = 0
       /\ call.pc = "closed" => call.refs = 0
       /\ (call.pc = "aborted" /\ call.null_deref) => call.refs = 0

\* C27: no failure path of rvth_open_hdd() and rvth_open_gcm() reaches
\* rvth_close() with bank_count > 0 and a NULL entries array: neither a
\* bank count in 1..7 or above 32 nor a failed allocation of the entries
\* makes rvth_close() run over a NULL array.
C27_NoNullEntriesInClose ==
    (call.op = "open") => ~call.null_deref

\* C24: an invocation of rvth_copy_to_gcm() or rvth_copy_to_hdd() allocates
\* at most one scratch buffer and releases it exactly once on every exit
\* taken after the allocation; an exit before the allocation releases
\* nothing.
C24_BufferReleasedOnce ==
    (call.op \in {"extract", "import"})
    => /\ call.mallocs <= 1
       /\ call.frees <= call.mallocs
       /\ call.buf.alloc <=> (call.mallocs = 1 /\ call.frees = 0)
       /\ call.pc \in {"after_copy", "done"} => call.frees = call.mallocs

\* rvth_copy_to_hdd() has returned after a cancellation by the callback
\* that followed a write, with its buffer released.
C24_Witness ==
    /\ call.op = "import" /\ call.pc = "after_copy" /\ Cancelled
    /\ call.mallocs = 1 /\ call.frees = 1
    /\ \E k \in 1..Len(io) : io[k].op = "write" /\ io[k].file = "hdd"

\* C25: rvth_copy_to_hdd() returns 0 only if every sector of the source was
\* copied, the destination was flushed and the bank-table entry was
\* written; when the destination bank has no reader and none can be
\* created, or when the callback cancels, the result is a negative errno.
C25_ZeroOnlyIfComplete ==
    CopyToHddReturned
    => /\ call.cret = 0
          => /\ ~Cancelled
             /\ call.err = 0
             /\ \E t \in TableWrites : ImageWrittenBefore(t)
       /\ (Cancelled \/ rvth.entries[call.bank + 1].reader = NoReader)
          => call.cret < 0

\* rvth_open_hdd() has parsed the whole bank table.
TableParsed == call.op = "open" /\ call.path = "hdd" /\ call.opened

\* The slots rvth_open_hdd() has read: all but the second banks of
\* dual-layer images.
SlotsRead ==
    {i \in 0..(rvth.bank_count - 1) :
        rvth.entries[i + 1].type # RVTH_BankType_Wii_DL_Bank2}

\* The entry of slot i when rvth_init_BankEntry() is handed the type the
\* table lists and the given lba_start and lba_len.
EntryFrom(i, lba_start, lba_len) ==
    rvth_init_BankEntry(BankTypeOfTable(table[i + 1].type), lba_start, lba_len,
                        table[i + 1].timestamp, Sector(hddData.sec, lba_start),
                        hddData.discs[i + 1].hdrCached, hddData.discs[i + 1].meta)

\* Slot i was read once, at byte offset bank_table_base + 512 + i*512.
SlotReadAtItsOffset(i) ==
    LET R == {k \in 1..Len(io) : io[k].op = "read_entry" /\ io[k].slot = i}
    IN  /\ Cardinality(R) = 1
        /\ \A k \in R : io[k].addr = LBA_TO_BYTES(NHCD_BANKTABLE_ADDRESS_LBA)
                                         + 512 + i * 512

\* C26: for every slot of the bank table that is read, whatever its type,
\* the lba_start and lba_len of the table are used when both are non-zero
\* and are replaced by NHCD_BANK_START_LBA(i, bank_count) and 0 only when
\* one of them is zero; slot i is read from byte offset
\* bank_table_base + 512 + i*512, also after a skipped slot.
C26_ListedLbasUsed ==
    TableParsed
    => \A i \in SlotsRead :
          /\ SlotReadAtItsOffset(i)
          /\ rvth.entries[i + 1] =
                IF table[i + 1].lba_start # 0 /\ table[i + 1].lba_len # 0
                THEN EntryFrom(i, table[i + 1].lba_start, table[i + 1].lba_len)
                ELSE EntryFrom(i, NHCD_BANK_START_LBA(i, rvth.bank_count), 0)

\* C26, amended: the lba_start and lba_len of the table are used when both
\* are non-zero and the slot's translated type is GCN, Wii_SL or Wii_DL;
\* for a slot typed Empty or Unknown, and when one of them is zero, they
\* are replaced by NHCD_BANK_START_LBA(i, bank_count) and 0.  Slot i is
\* read from byte offset bank_table_base + 512 + i*512, also after a
\* skipped slot.
C26_ListedLbasUsedForValidTypes ==
    TableParsed
    => \A i \in SlotsRead :
          /\ SlotReadAtItsOffset(i)
          /\ rvth.entries[i + 1] =
                IF /\ BankTypeOfTable(table[i + 1].type) >= RVTH_BankType_GCN
                   /\ table[i + 1].lba_start # 0 /\ table[i + 1].lba_len # 0
                THEN EntryFrom(i, table[i + 1].lba_start, table[i + 1].lba_len)
                ELSE EntryFrom(i, NHCD_BANK_START_LBA(i, rvth.bank_count), 0)

\* A table was parsed in which a slot typed Empty and a slot of unknown
\* type list non-zero LBAs, a GameCube slot lists LBAs that are not the
\* defaults, another lists a length of 0, and a slot was read after the
\* skipped second bank of a dual-layer image.
C26_Witness ==
    /\ TableParsed
    /\ \E i \in SlotsRead :
          /\ BankTypeOfTable(table[i + 1].type) = RVTH_BankType_Empty
          /\ table[i + 1].lba_start # 0 /\ table[i + 1].lba_len # 0
    /\ \E i \in SlotsRead :
          /\ BankTypeOfTable(table[i + 1].type) = RVTH_BankType_Unknown
          /\ table[i + 1].lba_start # 0 /\ table[i + 1].lba_len # 0
    /\ \E i \in SlotsRead :
          /\ BankTypeOfTable(table[i + 1].type) = RVTH_BankType_GCN
          /\ rvth.entries[i + 1].lba_start # NHCD_BANK_START_LBA(i, rvth.bank_count)
          /\ rvth.entries[i + 1].lba_len = 16
    /\ \E i \in SlotsRead :
          /\ table[i + 1].lba_start # 0 /\ table[i + 1].lba_len = 0
          /\ rvth.entries[i + 1].lba_start = NHCD_BANK_START_LBA(i, rvth.bank_count)
    /\ \E i \in SlotsRead : i > 0 /\ (i - 1) \notin SlotsRead

\* The results with which rvth_copy_to_hdd() rejects its arguments.
PreconditionErrors ==
    {-EINVAL, -ERANGE, RVTH_ERROR_NOT_HDD_IMAGE, RVTH_ERROR_BANK_UNKNOWN,
     RVTH_ERROR_BANK_EMPTY, RVTH_ERROR_BANK_DL_2, RVTH_ERROR_IMPORT_DL_EXT_NO_BANK1,
     RVTH_ERROR_IMPORT_DL_LAST_BANK, RVTH_ERROR_BANK_NOT_EMPTY_OR_DELETED,
     RVTH_ERROR_BANK2DL_NOT_EMPTY_OR_DELETED, RVTH_ERROR_IMAGE_TOO_BIG}

\* C28: when rvth_copy_to_hdd() rejects an import with a precondition
\* error, the destination is left as it was: no field of a bank entry is
\* modified, the image is not made writable, no reader is created and
\* nothing is written to the file.
C28_RejectedImportLeavesDest ==
    [][(/\ call.pc = "copy" /\ call'.pc = "after_copy"
        /\ call'.cret \in PreconditionErrors)
       => /\ rvth' = rvth /\ ~rvth'.writable
          /\ hddData' = hddData /\ table' = table /\ io' = io]_vars

\* An import of a dual-layer image was rejected because the bank that
\* follows the destination bank holds a disc.
C28_Witness ==
    /\ call.op = "import" /\ call.pc = "after_copy"
    /\ call.cret = RVTH_ERROR_BANK2DL_NOT_EMPTY_OR_DELETED
    /\ rvth.entries = call.old_entries /\ ~rvth.writable

\* rvth_copy_to_gcm() is running or has returned.
CopyToGcmEntered ==
    /\ call.op = "extract" /\ ~call.unenc_to_enc
    /\ call.pc \in {"chunk", "tail", "final", "after_copy", "done"}
    /\ call.mallocs = 1 /\ call.lba_copy_len > 0

\* C29: during rvth_copy_to_gcm() every read given to the source reader
\* lies in [0, source lba_len), every write given to the destination
\* reader lies in the destination window, with or without a prepended SDK
\* header, and no more than floor(source lba_len / 2048) full buffers are
\* processed.
C29_CopyWithinWindows ==
    CopyToGcmEntered
    => LET src == rvth.entries[call.bank + 1]
           dst == gcm.entries[1].reader
       IN  \* the full buffers processed, and the one the loop is about to read
           /\ call.lba_count <= AlignDownBuf(src.lba_len)
           /\ call.pc = "chunk" => call.lba_count + LBA_COUNT_BUF <= src.lba_len
           /\ call.pc = "tail" => call.lba_copy_len <= src.lba_len
           \* what has reached the two files
           /\ \A k \in 1..Len(io) :
                 /\ (io[k].op = "read" /\ io[k].file = "hdd")
                    => /\ io[k].lba >= src.reader.lba_start
                       /\ io[k].lba + io[k].n <= src.reader.lba_start + src.lba_len
                 /\ (io[k].op = "write" /\ io[k].file = "gcm"
                        /\ k > 1 /\ \E t \in 1..(k - 1) : io[t].op = "truncate")
                    => /\ io[k].lba >= dst.lba_start
                       /\ io[k].lba + io[k].n <= dst.lba_start + dst.lba_len

\* rvth_copy_to_gcm() has copied a bank of at least one sector and has
\* returned 0.
CopiedToGcm ==
    /\ CopyToGcmSucceeded /\ call.mallocs = 1 /\ call.err = 0
    /\ call.lba_copy_len >= 1

\* C30: after a successful rvth_copy_to_gcm() of a bank of L >= 1 sectors
\* the destination's sector L-1 has been written, so that the image in the
\* file is L sectors long, and a zeroed last sector has been written only
\* if the source's sector L-1 is zero: a non-zero last sector of the
\* source is in the destination.
C30_LastSectorWritten ==
    CopiedToGcm
    => LET src == rvth.entries[call.bank + 1].reader
           dst == gcm.entries[1].reader
           L == call.lba_copy_len
           last_src == Sector(hddData.sec, src.lba_start + L - 1)
       IN  /\ \E k \in 1..Len(io) :
                 /\ io[k].op = "write" /\ io[k].file = "gcm"
                 /\ io[k].lba <= dst.lba_start + L - 1
                 /\ dst.lba_start + L - 1 < io[k].lba + io[k].n
           /\ gcmData.filesize = dst.lba_start + L
           /\ last_src # ZERO
              => Sector(gcmData.sec, dst.lba_start + L - 1) = last_src

====
